---- MODULE Spec2Model ----
(***************************************************************************)
(* The experimentation subsystem of article_generation:                    *)
(*  - the experiment store (experimentation.experiment): Experiment        *)
(*    objects (variants, trials), the JSON document each one writes        *)
(*    through to, the statistical comparison analyze_results, the          *)
(*    baseline-relative analyze_results() and get_best_variant;            *)
(*  - the feedback store (experimentation.feedback): FeedbackManager       *)
(*    objects (criteria, responses), their document, the rating            *)
(*    validation and the score and statistics queries.                     *)
(***************************************************************************)
EXTENDS Integers, Sequences, FiniteSets, TLC

(* ------------------------------ bounds -------------------------------- *)

\* uuid4 draws (variant ids and trial ids together) in one behaviour
MaxIds == 3
\* trials of a store drawn for the analysis specification
MaxTrials == 3
\* trials of a store drawn for the parameterless analysis
MaxBaselineTrials == 4
\* uuid4 draws (criterion ids and response ids together) of the feedback
\* store in one behaviour
MaxFeedbackIds == 4
\* log_trace calls in one behaviour
MaxTraces == 3
\* characters of the text an LLM response holds
MaxTextLen == 5

(* --------------------------- program constants ------------------------ *)

\* add_variant's default temperature, in tenths (0.7)
DefaultTemperature == 7
\* add_variant's default max_tokens
DefaultMaxTokens == 4096
\* add_criterion's default weight (1.0)
DefaultWeight == 1
\* generate_content's max_retries
MaxRetries == 3
\* generate_content's base_delay, in seconds
BaseDelay == 1

(* ------------------------------ inputs -------------------------------- *)

\* The Experiment objects of the process(es): two handles that may be built
\* on the same name and directory.
Inst == {"A", "B"}

ExperimentNames == {"test_experiment"}
ExperimentDir == "experiments"
Description == "Test experiment"
\* the declared metrics (a Python list)
DeclaredMetrics == <<"structure_score", "content_score">>
MetricValues == {7, 9}
PromptTemplate == "Test prompt {title}"
ModelName == "claude-3-opus-20240229"

\* Python's None, passed for an omitted Optional argument
None == [py_none |-> TRUE]
EmptyDict == [k \in {} |-> ""]
Metadata == [content_length |-> 1200]
\* what a caller may pass to add_variant: a name, and metadata or None
VariantArgs ==
    {[name |-> "control", metadata |-> None],
     [name |-> "test", metadata |-> Metadata]}
Title == "Test Article"
Keywords == <<"test">>
Evaluation == [strengths |-> <<"Good structure">>]

\* datetime.datetime values the clock returns: seconds and microseconds
DateTimes == {[sec |-> 0, usec |-> 500000], [sec |-> 1, usec |-> 0]}

Range(s) == {s[k] : k \in 1..Len(s)}

\* what a caller may pass to record_trial: metrics that lack every declared
\* name, lack one, or hold them all (with or without an undeclared one), each
\* with a metadata argument and the clock's reading during the call
TrialArgs ==
    {[metrics |-> EmptyDict, metadata |-> None,
      now |-> [sec |-> 0, usec |-> 500000]],
     [metrics |-> [structure_score |-> 7], metadata |-> Metadata,
      now |-> [sec |-> 1, usec |-> 0]],
     [metrics |-> [structure_score |-> 7, content_score |-> 9],
      metadata |-> None, now |-> [sec |-> 1, usec |-> 0]],
     [metrics |-> [structure_score |-> 9, content_score |-> 7,
                   seo_score |-> 7],
      metadata |-> Metadata, now |-> [sec |-> 0, usec |-> 500000]]}

(* --------------------------- the file system -------------------------- *)

NoFile == [exists |-> FALSE]

\* os.path.join(self.experiment_dir, f"{self.name}.json")
Path(self) == <<self.experiment_dir, self.name, ".json">>
Paths == {<<ExperimentDir, n, ".json">> : n \in ExperimentNames}

(* ------------------------------ the state ----------------------------- *)

VARIABLES
    exp,      \* Inst -> the Experiment (or FeedbackManager) object, or Unbuilt
    disk,     \* path -> the JSON document at that path (or NoFile)
    nextId,   \* the uuid4 values drawn so far are 1..nextId-1
    ret       \* the last call: object, operation, outcome, returned value

vars == <<exp, disk, nextId, ret>>

Unbuilt == [built |-> FALSE]
Built(i) == exp[i].built

(* ------------------------- datetime <-> ISO-8601 ---------------------- *)

\* mutant: isoformat(timespec="seconds"), which drops the microseconds
IsoFormat_Seconds(ts) ==
    [seconds |-> ts.sec, fraction |-> <<>>]

\* datetime.isoformat(): the fraction is written only when microsecond # 0
IsoFormat(ts) ==
    [seconds |-> ts.sec,
     fraction |-> IF ts.usec = 0 THEN <<>> ELSE <<ts.usec>>]

\* datetime.fromisoformat(): a missing fraction reads as microsecond 0
FromIsoFormat(s) ==
    [sec |-> s.seconds,
     usec |-> IF s.fraction = <<>> THEN 0 ELSE s.fraction[1]]

(* ------------------------------ persistence --------------------------- *)

VariantToJson(v) ==
    [id |-> v.id, name |-> v.name, prompt_template |-> v.prompt_template,
     model |-> v.model, temperature |-> v.temperature,
     max_tokens |-> v.max_tokens, metadata |-> v.metadata]

TrialToJson(t) ==
    [id |-> t.id, variant_id |-> t.variant_id,
     timestamp |-> IsoFormat(t.timestamp), title |-> t.title,
     keywords |-> t.keywords, metrics |-> t.metrics,
     evaluation |-> t.evaluation, metadata |-> t.metadata]

\* the document _save_experiment builds
ExperimentData(self) ==
    [name |-> self.name,
     description |-> self.description,
     metrics |-> self.metrics,
     variants |-> [vid \in DOMAIN self.variants |->
                      VariantToJson(self.variants[vid])],
     trials |-> [k \in 1..Len(self.trials) |-> TrialToJson(self.trials[k])]]

\* mutant: the document is written only when no file exists yet
SaveExperiment_CreateOnly(self, fs) ==
    IF fs[Path(self)] = NoFile
    THEN [fs EXCEPT ![Path(self)] = ExperimentData(self)]
    ELSE fs

\* mutant: a read-modify-write that keeps what the existing document holds
\* and the object does not
SaveExperiment_Merge(self, fs) ==
    IF fs[Path(self)] = NoFile
    THEN [fs EXCEPT ![Path(self)] = ExperimentData(self)]
    ELSE LET old == fs[Path(self)]
             new == ExperimentData(self)
             mine == {new.trials[k].id : k \in 1..Len(new.trials)}
         IN [fs EXCEPT ![Path(self)] =
               [new EXCEPT
                  !.variants = [vid \in DOMAIN old.variants
                                        \cup DOMAIN new.variants |->
                                   IF vid \in DOMAIN new.variants
                                   THEN new.variants[vid]
                                   ELSE old.variants[vid]],
                  !.trials = SelectSeq(old.trials,
                                 LAMBDA t : t.id \notin mine) \o new.trials]]

\* _save_experiment: the file system after the full-document overwrite
SaveExperiment(self, fs) ==
    [fs EXCEPT ![Path(self)] = ExperimentData(self)]

VariantFromJson(v) ==
    [id |-> v.id, name |-> v.name, prompt_template |-> v.prompt_template,
     model |-> v.model, temperature |-> v.temperature,
     max_tokens |-> v.max_tokens, metadata |-> v.metadata]

TrialFromJson(t) ==
    [id |-> t.id, variant_id |-> t.variant_id,
     timestamp |-> FromIsoFormat(t.timestamp), title |-> t.title,
     keywords |-> t.keywords, metrics |-> t.metrics,
     evaluation |-> t.evaluation, metadata |-> t.metadata]

\* _load_experiment: the object after loading; only variants and trials are
\* taken from the document
LoadExperiment(self, fs) ==
    IF fs[Path(self)] = NoFile
    THEN self
    ELSE LET data == fs[Path(self)] IN
         [self EXCEPT
            !.variants = [vid \in DOMAIN data.variants |->
                             VariantFromJson(data.variants[vid])],
            !.trials = [k \in 1..Len(data.trials) |->
                             TrialFromJson(data.trials[k])]]

(* ------------------------------ operations ---------------------------- *)

NoArgs == [none |-> TRUE]

Init ==
    /\ exp = [i \in Inst |-> Unbuilt]
    /\ disk = [p \in Paths |-> NoFile]
    /\ nextId = 1
    /\ ret = [inst |-> "A", op |-> "none", args |-> NoArgs,
              status |-> "ok", value |-> 0]

\* str(uuid.uuid4()): a value no earlier draw returned
Uuid4 == nextId

\* Experiment.__init__
NewExperiment(name, description, metrics, fs) ==
    LoadExperiment(
        [built |-> TRUE, name |-> name, description |-> description,
         metrics |-> metrics, experiment_dir |-> ExperimentDir,
         variants |-> EmptyDict, trials |-> <<>>], fs)

Construct(i, name) ==
    /\ ~Built(i)
    /\ exp' = [exp EXCEPT ![i] =
                  NewExperiment(name, Description, DeclaredMetrics, disk)]
    /\ ret' = [inst |-> i, op |-> "__init__", args |-> [name |-> name],
               status |-> "ok", value |-> 0]
    /\ UNCHANGED <<disk, nextId>>

\* mutant: self.variants = {variant_id: variant}
PutVariant_Replace(variants, variant_id, variant) ==
    [vid \in {variant_id} |-> variant]

\* self.variants[variant_id] = variant
PutVariant(variants, variant_id, variant) ==
    [vid \in DOMAIN variants \cup {variant_id} |->
        IF vid = variant_id THEN variant ELSE variants[vid]]

\* the object after add_variant's insertion
WithVariant(self, variant_id, name, metadata) ==
    [self EXCEPT !.variants =
        PutVariant(self.variants, variant_id,
            [id |-> variant_id, name |-> name,
             prompt_template |-> PromptTemplate, model |-> ModelName,
             temperature |-> DefaultTemperature,
             max_tokens |-> DefaultMaxTokens,
             metadata |-> IF metadata = None THEN EmptyDict ELSE metadata])]

AddVariant(i, name, metadata) ==
    /\ Built(i)
    /\ nextId <= MaxIds
    /\ LET self == WithVariant(exp[i], Uuid4, name, metadata) IN
        /\ exp' = [exp EXCEPT ![i] = self]
        /\ disk' = SaveExperiment(self, disk)
    /\ nextId' = nextId + 1
    /\ ret' = [inst |-> i, op |-> "add_variant",
               args |-> [name |-> name],
               status |-> "ok", value |-> Uuid4]

\* mutant: only the first declared metric is required
MissingMetrics_First(self, metrics) ==
    {self.metrics[k] : k \in {1} \cap DOMAIN self.metrics} \ DOMAIN metrics

\* set(self.metrics) - set(metrics.keys())
MissingMetrics(self, metrics) == Range(self.metrics) \ DOMAIN metrics

\* mutant: self.trials.insert(0, trial)
WithTrial_Front(self, trial_id, variant_id, metrics, metadata, now) ==
    [self EXCEPT !.trials = <<
        [id |-> trial_id, variant_id |-> variant_id, timestamp |-> now,
         title |-> Title, keywords |-> Keywords, metrics |-> metrics,
         evaluation |-> Evaluation,
         metadata |-> IF metadata = None THEN EmptyDict ELSE metadata]>>
        \o self.trials]

\* the object after record_trial's append
WithTrial(self, trial_id, variant_id, metrics, metadata, now) ==
    [self EXCEPT !.trials = Append(self.trials,
        [id |-> trial_id, variant_id |-> variant_id, timestamp |-> now,
         title |-> Title, keywords |-> Keywords, metrics |-> metrics,
         evaluation |-> Evaluation,
         metadata |-> IF metadata = None THEN EmptyDict ELSE metadata])]

RecordTrial(i, variant_id, metrics, metadata, now) ==
    /\ Built(i)
    /\ IF MissingMetrics(exp[i], metrics) # {}
       THEN /\ ret' = [inst |-> i, op |-> "record_trial",
                       args |-> [metrics |-> metrics],
                       status |-> "ValueError",
                       value |-> "Missing required metrics"]
            /\ UNCHANGED <<exp, disk, nextId>>
       ELSE /\ nextId <= MaxIds
            /\ LET self == WithTrial(exp[i], Uuid4, variant_id, metrics,
                                     metadata, now) IN
                /\ exp' = [exp EXCEPT ![i] = self]
                /\ disk' = SaveExperiment(self, disk)
            /\ nextId' = nextId + 1
            /\ ret' = [inst |-> i, op |-> "record_trial",
                       args |-> [metrics |-> metrics],
                       status |-> "ok", value |-> Uuid4]

\* variant ids a caller may pass: the registered ones and one that is not
VariantIdArgs(i) ==
    IF Built(i) THEN DOMAIN exp[i].variants \cup {0} ELSE {}

Next ==
    \/ \E i \in Inst, name \in ExperimentNames : Construct(i, name)
    \/ \E i \in Inst, a \in VariantArgs :
          AddVariant(i, a.name, a.metadata)
    \/ \E i \in Inst, a \in TrialArgs :
          \E vid \in VariantIdArgs(i) :
             RecordTrial(i, vid, a.metrics, a.metadata, a.now)

Spec == Init /\ [][Next]_vars

(* ------------------------------- analysis ----------------------------- *)

RECURSIVE SumSeq(_)
SumSeq(s) == IF s = <<>> THEN 0 ELSE Head(s) + SumSeq(Tail(s))

SumSq(s) == SumSeq([k \in 1..Len(s) |-> s[k] * s[k]])

\* the trials of one variant, in recording order
TrialsOf(self, variant_id) ==
    SelectSeq(self.trials, LAMBDA t : t.variant_id = variant_id)

\* [t.metrics[metric] for t in self.trials if t.variant_id == variant_id]
MetricData(self, metric, variant_id) ==
    LET ts == TrialsOf(self, variant_id)
    IN [k \in 1..Len(ts) |-> ts[k].metrics[metric]]

\* the subscript t.metrics[metric] raises KeyError for some selected trial
MetricKeyError(self, metric, variant_id) ==
    \E k \in 1..Len(self.trials) :
        /\ self.trials[k].variant_id = variant_id
        /\ metric \notin DOMAIN self.trials[k].metrics

\* np.mean, as the fraction sum / count
Mean(data) == [num |-> SumSeq(data), den |-> Len(data)]

\* np.std squared (the population variance), as a fraction
StdSquared(data) ==
    [num |-> Len(data) * SumSq(data) - SumSeq(data) * SumSeq(data),
     den |-> Len(data) * Len(data)]

\* squares of the two-sided 5% points of Student's t, times 10000, by
\* degrees of freedom
CriticalSquared(df) ==
    CASE df = 1 -> 1614476
      [] df = 2 -> 185128
      [] df = 3 -> 101280
      [] df = 4 -> 77086
      [] df = 5 -> 66079
      [] df = 6 -> 59874
      [] df = 7 -> 55914
      [] df = 8 -> 53177

\* p_value < 0.05 for stats.ttest_ind(control_data, variant_data): the
\* pooled-variance t statistic against the critical point.  Two samples of
\* one observation give nan (never below 0.05); so does, in scipy builds
\* that take the variance of a one-observation sample (0/0), any sample of
\* one observation: single_obs_nan tells which build runs.  Zero pooled
\* variance gives t = +-inf (p = 0) when the means differ and nan when not.
Significant(control_data, variant_data, single_obs_nan) ==
    LET n1 == Len(control_data)
        n2 == Len(variant_data)
        df == n1 + n2 - 2
        D == SumSeq(control_data) * n2 - SumSeq(variant_data) * n1
        W == n2 * (n1 * SumSq(control_data)
                      - SumSeq(control_data) * SumSeq(control_data))
             + n1 * (n2 * SumSq(variant_data)
                      - SumSeq(variant_data) * SumSeq(variant_data))
    IN IF df = 0 THEN FALSE
       ELSE IF (n1 = 1 \/ n2 = 1) /\ single_obs_nan THEN FALSE
       ELSE IF W = 0 THEN D # 0
       ELSE D * D * df * 10000 > CriticalSquared(df) * W * (n1 + n2)

\* float(((variant_mean / control_mean) - 1) * 100): a fraction with a
\* positive denominator, or numpy's inf / -inf / nan when control_mean is 0
Improvement(control_data, variant_data) ==
    LET s1 == SumSeq(control_data)
        n1 == Len(control_data)
        s2 == SumSeq(variant_data)
        n2 == Len(variant_data)
        num == (s2 * n1 - s1 * n2) * 100
        den == s1 * n2
    IN IF s1 = 0
       THEN [kind |-> IF s2 > 0 THEN "inf" ELSE IF s2 < 0 THEN "-inf"
                      ELSE "nan",
             num |-> 0, den |-> 1]
       ELSE IF den > 0 THEN [kind |-> "finite", num |-> num, den |-> den]
       ELSE [kind |-> "finite", num |-> 0 - num, den |-> 0 - den]

\* improvement > 0
Positive(improvement) ==
    \/ improvement.kind = "inf"
    \/ improvement.kind = "finite" /\ improvement.num > 0

\* datetime comparison a <= b
DateTimeLe(a, b) == a.sec < b.sec \/ (a.sec = b.sec /\ a.usec <= b.usec)

\* mutant: the first trial's timestamp
MinTimestamp_First(trials) == trials[1].timestamp

\* min(t.timestamp for t in self.trials)
MinTimestamp(trials) ==
    CHOOSE ts \in {trials[k].timestamp : k \in 1..Len(trials)} :
        \A k \in 1..Len(trials) : DateTimeLe(ts, trials[k].timestamp)

\* max(t.timestamp for t in self.trials)
MaxTimestamp(trials) ==
    CHOOSE ts \in {trials[k].timestamp : k \in 1..Len(trials)} :
        \A k \in 1..Len(trials) : DateTimeLe(trials[k].timestamp, ts)

\* "if not control_data" / "if not variant_data"
NoData(data) == data = <<>>

\* mutant: every other variant is compared, with or without trials
ComparedVariants_All(self, metric, control_variant) ==
    DOMAIN self.variants \ {control_variant}

\* the variants the comparison loop makes an entry for
ComparedVariants(self, metric, control_variant) ==
    {vid \in DOMAIN self.variants \ {control_variant} :
        ~NoData(MetricData(self, metric, vid))}

\* results["variants"][control_variant]
ControlEntry(self, control_data, control_variant) ==
    [name |-> self.variants[control_variant].name,
     sample_size |-> Len(control_data),
     mean |-> Mean(control_data),
     std_squared |-> StdSquared(control_data)]

\* results["variants"][variant_id]; p_value and effect_size are floats the
\* summary reads only through "significant"
VariantEntry(self, control_data, variant_data, variant_id, single_obs_nan) ==
    [name |-> self.variants[variant_id].name,
     sample_size |-> Len(variant_data),
     mean |-> Mean(variant_data),
     std_squared |-> StdSquared(variant_data),
     significant |-> Significant(control_data, variant_data, single_obs_nan),
     improvement |-> Improvement(control_data, variant_data)]

\* v.get("significant", False) and v.get("improvement", 0) > 0
SignificantImprovement(v) ==
    /\ IF "significant" \in DOMAIN v THEN v.significant ELSE FALSE
    /\ IF "improvement" \in DOMAIN v THEN Positive(v.improvement) ELSE FALSE

\* results["summary"]
Summary(self, entries) ==
    [total_trials |-> Len(self.trials),
     start_date |-> MinTimestamp(self.trials),
     end_date |-> MaxTimestamp(self.trials),
     significant_improvements |->
        Cardinality({vid \in DOMAIN entries :
                        SignificantImprovement(entries[vid])})]

\* analyze_results from the control entry on (control_data is not empty)
CompareWithControl(self, metric, control_variant, control_data, single_obs_nan) ==
    IF control_variant \notin DOMAIN self.variants
    THEN [status |-> "KeyError", value |-> "control_variant"]
    ELSE IF \E vid \in DOMAIN self.variants \ {control_variant} :
               MetricKeyError(self, metric, vid)
    THEN [status |-> "KeyError", value |-> metric]
    ELSE LET others == ComparedVariants(self, metric, control_variant)
             entries ==
                [vid \in {control_variant} \cup others |->
                    IF vid = control_variant
                    THEN ControlEntry(self, control_data, control_variant)
                    ELSE VariantEntry(self, control_data,
                                      MetricData(self, metric, vid), vid,
                                      single_obs_nan)]
         IN [status |-> "ok",
             value |-> [metric |-> metric,
                        control |-> control_variant,
                        variants |-> entries,
                        summary |-> Summary(self, entries)]]

\* mutant: without control data an empty report is returned
AnalyzeResults_EmptyReport(self, metric, control_variant, single_obs_nan) ==
    IF metric \notin Range(self.metrics)
    THEN [status |-> "ValueError", value |-> "Unknown metric"]
    ELSE IF MetricKeyError(self, metric, control_variant)
    THEN [status |-> "KeyError", value |-> metric]
    ELSE LET control_data == MetricData(self, metric, control_variant) IN
    IF NoData(control_data)
    THEN [status |-> "ok",
          value |-> [metric |-> metric, control |-> control_variant,
                     variants |-> EmptyDict, summary |-> EmptyDict]]
    ELSE CompareWithControl(self, metric, control_variant, control_data,
                            single_obs_nan)

\* analyze_results(metric, control_variant): what is raised or returned
AnalyzeResults(self, metric, control_variant, single_obs_nan) ==
    IF metric \notin Range(self.metrics)
    THEN [status |-> "ValueError", value |-> "Unknown metric"]
    ELSE IF MetricKeyError(self, metric, control_variant)
    THEN [status |-> "KeyError", value |-> metric]
    ELSE LET control_data == MetricData(self, metric, control_variant) IN
    IF NoData(control_data)
    THEN [status |-> "ValueError", value |-> "No data for control variant"]
    ELSE CompareWithControl(self, metric, control_variant, control_data,
                            single_obs_nan)

AnalyzeResultsCall(i, metric, control_variant, single_obs_nan) ==
    /\ Built(i)
    /\ LET out == AnalyzeResults(exp[i], metric, control_variant,
                                 single_obs_nan)
       IN ret' = [inst |-> i, op |-> "analyze_results",
                  args |-> [metric |-> metric, control |-> control_variant],
                  status |-> out.status, value |-> out.value]
    /\ UNCHANGED <<exp, disk, nextId>>

\* variant_means: the registered variants that have data for the metric
VariantsWithData(self, metric) ==
    {vid \in DOMAIN self.variants : ~NoData(MetricData(self, metric, vid))}

\* np.mean(a) < np.mean(b)
MeanLess(a, b) == SumSeq(a) * Len(b) < SumSeq(b) * Len(a)

\* get_best_variant(metric): what is raised or returned, the Optional[str]
\* result as the set of no id (None) or of one id; max() keeps the first of
\* several greatest means in the order of self.variants
GetBestVariant(self, metric) ==
    IF self.trials = <<>>
    THEN [status |-> "ok", value |-> {}]
    ELSE IF \E vid \in DOMAIN self.variants :
               MetricKeyError(self, metric, vid)
    THEN [status |-> "KeyError", value |-> metric]
    ELSE IF VariantsWithData(self, metric) = {}
    THEN [status |-> "ok", value |-> {}]
    ELSE [status |-> "ok",
          value |-> {CHOOSE vid \in VariantsWithData(self, metric) :
                      \A w \in VariantsWithData(self, metric) :
                         \/ MeanLess(MetricData(self, metric, w),
                                     MetricData(self, metric, vid))
                         \/ /\ ~MeanLess(MetricData(self, metric, vid),
                                         MetricData(self, metric, w))
                            /\ vid <= w}]

GetBestVariantCall(i, metric) ==
    /\ Built(i)
    /\ LET out == GetBestVariant(exp[i], metric)
       IN ret' = [inst |-> i, op |-> "get_best_variant",
                  args |-> [metric |-> metric],
                  status |-> out.status, value |-> out.value]
    /\ UNCHANGED <<exp, disk, nextId>>

(* ------------------- stores drawn for the analysis -------------------- *)

\* the ids of the two variants every drawn store registers first
DrawnVariantIds == {1, 2}

\* one recorded trial: its variant (0 is no registered variant), the value
\* of every declared metric, and the clock's reading
TrialDraws ==
    [variant_id : DrawnVariantIds \cup {0},
     value : MetricValues,
     now : DateTimes]

TrialDrawSeqs == UNION {[1..n -> TrialDraws] : n \in 0..MaxTrials}

RECURSIVE Recorded(_, _, _)
\* the object after record_trial calls with the drawn arguments
Recorded(self, draws, trial_id) ==
    IF draws = <<>> THEN self
    ELSE Recorded(
            WithTrial(self, trial_id, Head(draws).variant_id,
                      [m \in Range(DeclaredMetrics) |-> Head(draws).value],
                      None, Head(draws).now),
            Tail(draws), trial_id + 1)

\* a store after add_variant("control"), add_variant("test") and the drawn
\* record_trial calls
DrawnStore(draws) ==
    Recorded(
        WithVariant(
            WithVariant(
                NewExperiment("test_experiment", Description,
                              DeclaredMetrics, [p \in Paths |-> NoFile]),
                1, "control", None),
            2, "test", Metadata),
        draws, 3)

InitAnalysis ==
    \E draws \in TrialDrawSeqs :
        /\ exp = [i \in Inst |-> IF i = "A" THEN DrawnStore(draws)
                                 ELSE Unbuilt]
        /\ disk = SaveExperiment(DrawnStore(draws), [p \in Paths |-> NoFile])
        /\ nextId = 3 + Len(draws)
        /\ ret = [inst |-> "A", op |-> "none", args |-> NoArgs,
                  status |-> "ok", value |-> 0]

MetricArgs == {"structure_score", "seo_score"}

\* one query of each drawn store: a query changes nothing a later one reads
NextAnalysis ==
    /\ ret.op = "none"
    /\ \/ \E metric \in MetricArgs, control \in DrawnVariantIds \cup {0},
             single_obs_nan \in BOOLEAN :
              AnalyzeResultsCall("A", metric, control, single_obs_nan)
       \/ \E metric \in MetricArgs : GetBestVariantCall("A", metric)

SpecAnalysis == InitAnalysis /\ [][NextAnalysis]_vars

(* ------ analyze_results(), the parameterless baseline-relative form ---- *)

\* str.lower() on the variant names in use
Lower(name) == IF name = "Baseline" THEN "baseline" ELSE name

\* the distinct variant ids that have at least one trial
VariantsWithTrials(self) ==
    {self.trials[k].variant_id : k \in 1..Len(self.trials)}

\* the registered variants whose name is "baseline", case-insensitively
NamedBaseline(self) ==
    {vid \in DOMAIN self.variants :
        Lower(self.variants[vid].name) = "baseline"}

\* the variant ids with the greatest number of trials
MostTrials(self) ==
    {vid \in VariantsWithTrials(self) :
        \A w \in VariantsWithTrials(self) :
            Len(TrialsOf(self, w)) <= Len(TrialsOf(self, vid))}

\* mutant: a variant named "baseline" is the baseline, with or without trials
BaselineChoices_NamedOnly(self) ==
    IF NamedBaseline(self) # {} THEN NamedBaseline(self) ELSE MostTrials(self)

\* the baselines the selection may end with: the variant named "baseline"
\* if it has a trial, else a variant with the greatest number of trials
\* (which one among several is the one first encountered, an order the
\* selection does not fix)
BaselineChoices(self) ==
    IF \E vid \in NamedBaseline(self) : TrialsOf(self, vid) # <<>>
    THEN {vid \in NamedBaseline(self) : TrialsOf(self, vid) # <<>>}
    ELSE MostTrials(self)

\* mutant: the ratio of the means, without the "- 1"
RelativeChange_Ratio(baseline_data, variant_data) ==
    [kind |-> "finite",
     num |-> SumSeq(variant_data) * Len(baseline_data),
     den |-> SumSeq(baseline_data) * Len(variant_data)]

\* (variant_mean / baseline_mean) - 1 as a fraction; a zero baseline mean
\* leaves the result undefined
RelativeChange(baseline_data, variant_data) ==
    LET s1 == SumSeq(baseline_data)
        n1 == Len(baseline_data)
        s2 == SumSeq(variant_data)
        n2 == Len(variant_data)
    IN IF s1 = 0 THEN [kind |-> "undefined", num |-> 0, den |-> 1]
       ELSE IF s1 > 0
       THEN [kind |-> "finite", num |-> s2 * n1 - s1 * n2, den |-> s1 * n2]
       ELSE [kind |-> "finite", num |-> s1 * n2 - s2 * n1,
             den |-> 0 - s1 * n2]

\* variant_performance: by variant name, the relative change of every
\* declared metric, for every other variant with a trial
VariantPerformance(self, baseline) ==
    LET others == (VariantsWithTrials(self) \cap DOMAIN self.variants)
                     \ {baseline}
        IdOf(name) == CHOOSE vid \in others : self.variants[vid].name = name
    IN [name \in {self.variants[vid].name : vid \in others} |->
          [m \in Range(self.metrics) |->
              RelativeChange(MetricData(self, m, baseline),
                             MetricData(self, m, IdOf(name)))]]

\* mutant: with no trials the analysis fails as it does without a baseline
AnalyzeBaseline_NoTrialsFails(self, baseline) ==
    IF baseline \notin BaselineChoices(self)
    THEN [status |-> "ValueError", value |-> "No trials for any variant"]
    ELSE [status |-> "ok",
          value |-> [total_trials |-> Len(self.trials),
                     baseline_variant |-> self.variants[baseline].name,
                     variant_performance |->
                         VariantPerformance(self, baseline)]]

\* analyze_results(): what is raised or returned when the selection ends
\* with the given baseline
AnalyzeBaseline(self, baseline) ==
    IF self.trials = <<>>
    THEN [status |-> "ok",
          value |-> [total_trials |-> 0, variant_performance |-> EmptyDict]]
    ELSE IF baseline \notin BaselineChoices(self)
    THEN [status |-> "ValueError", value |-> "No trials for any variant"]
    ELSE [status |-> "ok",
          value |-> [total_trials |-> Len(self.trials),
                     baseline_variant |-> self.variants[baseline].name,
                     variant_performance |->
                         VariantPerformance(self, baseline)]]

AnalyzeBaselineCall(i, baseline) ==
    /\ Built(i)
    /\ LET out == AnalyzeBaseline(exp[i], baseline)
       IN ret' = [inst |-> i, op |-> "analyze_results", args |-> NoArgs,
                  status |-> out.status, value |-> out.value]
    /\ UNCHANGED <<exp, disk, nextId>>

\* the variant names a drawn store registers, in order (ids 1, 2, ...)
BaselineVariantNames ==
    {<<"baseline", "A", "B">>, <<"Baseline", "A">>, <<"A", "B">>}

\* the metric values of the relative-performance example
BaselineMetricValues == {10, 12}

RECURSIVE Registered(_, _, _)
\* the object after add_variant calls with the given names
Registered(self, names, variant_id) ==
    IF names = <<>> THEN self
    ELSE Registered(WithVariant(self, variant_id, Head(names), None),
                    Tail(names), variant_id + 1)

\* one recorded trial: its (registered) variant and the value of every
\* declared metric
BaselineTrialDraws(names) ==
    [variant_id : 1..Len(names), value : BaselineMetricValues,
     now : {[sec |-> 1, usec |-> 0]}]

\* a store after the add_variant calls and the drawn record_trial calls
BaselineStore(names, draws) ==
    Recorded(
        Registered(
            NewExperiment("test_experiment", Description, DeclaredMetrics,
                          [p \in Paths |-> NoFile]),
            names, 1),
        draws, Len(names) + 1)

InitBaseline ==
    \E names \in BaselineVariantNames :
       \E n \in 0..MaxBaselineTrials :
          \E draws \in [1..n -> BaselineTrialDraws(names)] :
            /\ exp = [i \in Inst |->
                        IF i = "A" THEN BaselineStore(names, draws)
                        ELSE Unbuilt]
            /\ disk = SaveExperiment(BaselineStore(names, draws),
                                     [p \in Paths |-> NoFile])
            /\ nextId = Len(names) + Len(draws) + 1
            /\ ret = [inst |-> "A", op |-> "none", args |-> NoArgs,
                      status |-> "ok", value |-> 0]

\* one query of each drawn store; the selection may end with any of the
\* variants the tie leaves open (0 stands for none when there is none)
NextBaseline ==
    /\ ret.op = "none"
    /\ \E baseline \in (IF BaselineChoices(exp["A"]) = {} THEN {0}
                        ELSE BaselineChoices(exp["A"])) :
           AnalyzeBaselineCall("A", baseline)

SpecBaseline == InitBaseline /\ [][NextBaseline]_vars

(* --------------------------- the feedback store ----------------------- *)
(* FeedbackManager of article_generation.experimentation.feedback.  Its    *)
(* specification keeps the objects in exp and the single document          *)
(* feedback_data.json in disk.                                             *)

FeedbackDir == "feedback"
\* os.path.join(self.feedback_dir, "feedback_data.json")
FeedbackPath(self) == <<self.feedback_dir, "feedback_data.json">>
FeedbackPaths == {<<FeedbackDir, "feedback_data.json">>}

\* Python values a scale is built of
PyStr(s) == [type |-> "str", val |-> s]
\* a dict, as its (key, value) items in insertion order
PyDict(items) == [type |-> "dict", items |-> items]
PyList(items) == [type |-> "list", items |-> items]

\* a scale as the annotation and the tests give it: a list of single-entry
\* {value: description} dicts
ListScale ==
    PyList(<<PyDict(<<<<"4", "Good">>>>), PyDict(<<<<"5", "Excellent">>>>)>>)
\* a scale given as one {value: description, ...} dict
DictScale == PyDict(<<<<"4", "Good">>, <<"5", "Excellent">>>>)

\* what a caller may pass to add_criterion
CriterionArgs ==
    {[name |-> "Quality", description |-> "Content quality",
      scale |-> ListScale, weight |-> 2],
     [name |-> "Quality", description |-> "Content quality",
      scale |-> DictScale, weight |-> 2],
     [name |-> "Structure", description |-> "Article structure",
      scale |-> DictScale, weight |-> DefaultWeight]}

\* what a caller may pass to record_feedback besides the ratings, with the
\* clock's reading during the call
FeedbackArgs ==
    {[article_id |-> "test_article", evaluator_id |-> "evaluator1",
      comments |-> "", metadata |-> None,
      now |-> [sec |-> 1, usec |-> 0]],
     [article_id |-> "article_0", evaluator_id |-> "evaluator2",
      comments |-> "Excellent article", metadata |-> Metadata,
      now |-> [sec |-> 0, usec |-> 500000]]}

\* article ids a caller may ask about: one that is rated and one that is not
ArticleIds == {"test_article", "article_1"}

(* ---- feedback persistence ---- *)

CriterionToJson(c) ==
    [id |-> c.id, name |-> c.name, description |-> c.description,
     scale |-> c.scale, weight |-> c.weight]

ResponseToJson(r) ==
    [id |-> r.id, article_id |-> r.article_id,
     evaluator_id |-> r.evaluator_id,
     timestamp |-> IsoFormat(r.timestamp), ratings |-> r.ratings,
     comments |-> r.comments, metadata |-> r.metadata]

\* the document _save_feedback_data builds
FeedbackData(self) ==
    [criteria |-> [cid \in DOMAIN self.criteria |->
                      CriterionToJson(self.criteria[cid])],
     responses |-> [k \in 1..Len(self.responses) |->
                      ResponseToJson(self.responses[k])]]

\* mutant: the document is written only when no file exists yet
SaveFeedbackData_CreateOnly(self, fs) ==
    IF fs[FeedbackPath(self)] = NoFile
    THEN [fs EXCEPT ![FeedbackPath(self)] = FeedbackData(self)]
    ELSE fs

\* _save_feedback_data: the file system after the full-document overwrite
SaveFeedbackData(self, fs) ==
    [fs EXCEPT ![FeedbackPath(self)] = FeedbackData(self)]

CriterionFromJson(c) ==
    [id |-> c.id, name |-> c.name, description |-> c.description,
     scale |-> c.scale, weight |-> c.weight]

ResponseFromJson(r) ==
    [id |-> r.id, article_id |-> r.article_id,
     evaluator_id |-> r.evaluator_id,
     timestamp |-> FromIsoFormat(r.timestamp), ratings |-> r.ratings,
     comments |-> r.comments, metadata |-> r.metadata]

\* _load_feedback_data: the object after loading
LoadFeedbackData(self, fs) ==
    IF fs[FeedbackPath(self)] = NoFile
    THEN self
    ELSE LET data == fs[FeedbackPath(self)] IN
         [self EXCEPT
            !.criteria = [cid \in DOMAIN data.criteria |->
                             CriterionFromJson(data.criteria[cid])],
            !.responses = [k \in 1..Len(data.responses) |->
                             ResponseFromJson(data.responses[k])]]

(* ---- feedback operations ---- *)

\* FeedbackManager.__init__
NewFeedbackManager(feedback_dir, fs) ==
    LoadFeedbackData(
        [built |-> TRUE, feedback_dir |-> feedback_dir,
         criteria |-> EmptyDict, responses |-> <<>>], fs)

\* fm = FeedbackManager(feedback_dir): the name is bound to a new object
ConstructFeedback(i) ==
    /\ exp' = [exp EXCEPT ![i] = NewFeedbackManager(FeedbackDir, disk)]
    /\ ret' = [inst |-> i, op |-> "__init__", args |-> NoArgs,
               status |-> "ok", value |-> 0]
    /\ UNCHANGED <<disk, nextId>>

\* the object after add_criterion's insertion
WithCriterion(self, criterion_id, name, description, scale, weight) ==
    [self EXCEPT !.criteria =
        PutVariant(self.criteria, criterion_id,
            [id |-> criterion_id, name |-> name,
             description |-> description, scale |-> scale,
             weight |-> weight])]

AddCriterion(i, a) ==
    /\ Built(i)
    /\ nextId <= MaxFeedbackIds
    /\ LET self == WithCriterion(exp[i], Uuid4, a.name, a.description,
                                 a.scale, a.weight) IN
        /\ exp' = [exp EXCEPT ![i] = self]
        /\ disk' = SaveFeedbackData(self, disk)
    /\ nextId' = nextId + 1
    /\ ret' = [inst |-> i, op |-> "add_criterion", args |-> a,
               status |-> "ok", value |-> Uuid4]

\* ratings.keys(): a ratings dict is its (criterion_id, rating) items in
\* insertion order
RatingKeys(ratings) == {ratings[k][1] : k \in 1..Len(ratings)}
\* ratings[criterion_id]
RatingOf(ratings, criterion_id) ==
    ratings[CHOOSE k \in 1..Len(ratings) : ratings[k][1] = criterion_id][2]

\* mutant: only the last registered criterion must be rated
MissingCriteria_Last(self, ratings) ==
    {cid \in DOMAIN self.criteria \ RatingKeys(ratings) :
        \A other \in DOMAIN self.criteria : other <= cid}

\* set(self.criteria.keys()) - set(ratings.keys())
MissingCriteria(self, ratings) == DOMAIN self.criteria \ RatingKeys(ratings)

\* "for v in criterion.scale": a list yields its elements, a dict its keys
Iterate(scale) ==
    IF scale.type = "list" THEN scale.items
    ELSE [k \in 1..Len(scale.items) |-> PyStr(scale.items[k][1])]

\* int(v) raises TypeError for a dict
IntRaises(v) == v.type # "str"

\* int(v) for the strings in use
IntOf(v) ==
    CASE v.val = "1" -> 1
      [] v.val = "3" -> 3
      [] v.val = "4" -> 4
      [] v.val = "5" -> 5

\* mutant: self.criteria.get(criterion_id), a key that is no criterion id
\* is passed over
RatingError_SkipUnknown(self, item) ==
    IF item[1] \notin DOMAIN self.criteria THEN ""
    ELSE LET vs == Iterate(self.criteria[item[1]].scale) IN
         IF \E k \in 1..Len(vs) : IntRaises(vs[k]) THEN "TypeError"
         ELSE IF item[2] \notin {IntOf(vs[k]) : k \in 1..Len(vs)}
         THEN "ValueError"
         ELSE ""

\* the outcome of one turn of the validation loop: "" when it passes
RatingError(self, item) ==
    IF item[1] \notin DOMAIN self.criteria THEN "KeyError"
    ELSE LET vs == Iterate(self.criteria[item[1]].scale) IN
         IF \E k \in 1..Len(vs) : IntRaises(vs[k]) THEN "TypeError"
         ELSE IF item[2] \notin {IntOf(vs[k]) : k \in 1..Len(vs)}
         THEN "ValueError"
         ELSE ""

\* the error the validation loop raises: that of the first failing item
ValidationError(self, ratings) ==
    IF \A k \in 1..Len(ratings) : RatingError(self, ratings[k]) = ""
    THEN ""
    ELSE LET first == CHOOSE k \in 1..Len(ratings) :
                         /\ RatingError(self, ratings[k]) # ""
                         /\ \A j \in 1..(k - 1) :
                               RatingError(self, ratings[j]) = ""
         IN RatingError(self, ratings[first])

\* the object after record_feedback's append
WithResponse(self, response_id, a, ratings) ==
    [self EXCEPT !.responses = Append(self.responses,
        [id |-> response_id, article_id |-> a.article_id,
         evaluator_id |-> a.evaluator_id, timestamp |-> a.now,
         ratings |-> ratings, comments |-> a.comments,
         metadata |-> IF a.metadata = None THEN EmptyDict
                      ELSE a.metadata])]

RecordFeedback(i, a, ratings) ==
    /\ Built(i)
    /\ LET args == [article_id |-> a.article_id,
                    evaluator_id |-> a.evaluator_id, ratings |-> ratings]
       IN
       IF MissingCriteria(exp[i], ratings) # {}
       THEN /\ ret' = [inst |-> i, op |-> "record_feedback", args |-> args,
                       status |-> "ValueError",
                       value |-> "Missing ratings for criteria"]
            /\ UNCHANGED <<exp, disk, nextId>>
       ELSE IF ValidationError(exp[i], ratings) # ""
       THEN /\ ret' = [inst |-> i, op |-> "record_feedback", args |-> args,
                       status |-> ValidationError(exp[i], ratings),
                       value |-> IF ValidationError(exp[i], ratings)
                                       = "ValueError"
                                 THEN "Invalid rating" ELSE ""]
            /\ UNCHANGED <<exp, disk, nextId>>
       ELSE /\ nextId <= MaxFeedbackIds
            /\ LET self == WithResponse(exp[i], Uuid4, a, ratings) IN
                /\ exp' = [exp EXCEPT ![i] = self]
                /\ disk' = SaveFeedbackData(self, disk)
            /\ nextId' = nextId + 1
            /\ ret' = [inst |-> i, op |-> "record_feedback", args |-> args,
                       status |-> "ok", value |-> Uuid4]

(* ---- feedback queries ---- *)

RECURSIVE InOrder(_)
\* the keys of a dict in insertion order: ids are drawn in increasing order
InOrder(ids) ==
    IF ids = {} THEN <<>>
    ELSE LET least == CHOOSE x \in ids : \A y \in ids : x <= y
         IN <<least>> \o InOrder(ids \ {least})

\* [r for r in self.responses if r.article_id == article_id]
GetArticleFeedback(self, article_id) ==
    SelectSeq(self.responses, LAMBDA r : r.article_id = article_id)

\* [r.ratings[criterion_id] for r in responses if criterion_id in r.ratings]
CriterionRatings(responses, criterion_id) ==
    LET rated == SelectSeq(responses,
                     LAMBDA r : criterion_id \in RatingKeys(r.ratings))
    IN [k \in 1..Len(rated) |-> RatingOf(rated[k].ratings, criterion_id)]

\* sum(ratings) / len(ratings), as a fraction
Average(ratings) == [num |-> SumSeq(ratings), den |-> Len(ratings)]

\* scores after the loop over self.criteria: scores[criterion.name] is
\* assigned in the order of the dict, so a name registered twice keeps the
\* average of the last criterion that has ratings
CriterionScores(self, responses) ==
    LET rated == {cid \in DOMAIN self.criteria :
                     CriterionRatings(responses, cid) # <<>>}
        Last(name) == CHOOSE cid \in rated :
                         /\ self.criteria[cid].name = name
                         /\ \A other \in rated :
                               self.criteria[other].name = name
                                  => other <= cid
    IN [name \in {self.criteria[cid].name : cid \in rated} |->
           Average(CriterionRatings(responses, Last(name)))]

RECURSIVE WeightedSum(_, _, _)
\* sum(scores[c.name] * c.weight for c in criteria if c.name in scores)
WeightedSum(self, scores, ids) ==
    IF ids = <<>> THEN [num |-> 0, den |-> 1]
    ELSE LET c == self.criteria[Head(ids)]
             rest == WeightedSum(self, scores, Tail(ids))
         IN IF c.name \in DOMAIN scores
            THEN [num |-> scores[c.name].num * c.weight * rest.den
                             + rest.num * scores[c.name].den,
                  den |-> scores[c.name].den * rest.den]
            ELSE rest

\* sum(c.weight for c in self.criteria.values())
TotalWeight(self) ==
    SumSeq([k \in 1..Len(InOrder(DOMAIN self.criteria)) |->
               self.criteria[InOrder(DOMAIN self.criteria)[k]].weight])

\* mutant: the weighted sum is divided by the weights of the criteria that
\* have ratings
OverallWeight_WithData(self, scores) ==
    SumSeq([k \in 1..Len(InOrder(DOMAIN self.criteria)) |->
       IF self.criteria[InOrder(DOMAIN self.criteria)[k]].name
             \in DOMAIN scores
       THEN self.criteria[InOrder(DOMAIN self.criteria)[k]].weight ELSE 0])

\* the divisor of the overall score
OverallWeight(self, scores) == TotalWeight(self)

\* calculate_article_score(article_id): what is raised or returned
CalculateArticleScore(self, article_id) ==
    LET responses == GetArticleFeedback(self, article_id)
        scores == CriterionScores(self, responses)
        weighted_sum == WeightedSum(self, scores,
                                    InOrder(DOMAIN self.criteria))
    IN IF responses = <<>> THEN [status |-> "ok", value |-> EmptyDict]
       ELSE IF DOMAIN scores = {} THEN [status |-> "ok", value |-> scores]
       ELSE IF OverallWeight(self, scores) = 0
       THEN [status |-> "ZeroDivisionError", value |-> EmptyDict]
       ELSE [status |-> "ok",
             value |-> [name \in DOMAIN scores \cup {"overall"} |->
                          IF name = "overall"
                          THEN [num |-> weighted_sum.num,
                                den |-> weighted_sum.den
                                           * OverallWeight(self, scores)]
                          ELSE scores[name]]]

CalculateArticleScoreCall(i, article_id) ==
    /\ Built(i)
    /\ LET out == CalculateArticleScore(exp[i], article_id)
       IN ret' = [inst |-> i, op |-> "calculate_article_score",
                  args |-> [article_id |-> article_id],
                  status |-> out.status, value |-> out.value]
    /\ UNCHANGED <<exp, disk, nextId>>

\* min(all_ratings)
MinRating(ratings) ==
    CHOOSE x \in Range(ratings) : \A y \in Range(ratings) : x <= y
\* max(all_ratings)
MaxRating(ratings) ==
    CHOOSE x \in Range(ratings) : \A y \in Range(ratings) : y <= x

\* mutant: count is the number of all responses
CriterionStats_AllResponses(self, criterion_id) ==
    LET all_ratings == CriterionRatings(self.responses, criterion_id)
    IN [count |-> Len(self.responses), mean |-> Average(all_ratings),
        min |-> MinRating(all_ratings), max |-> MaxRating(all_ratings)]

\* stats["criteria_stats"][criterion.name] of a criterion with ratings
CriterionStats(self, criterion_id) ==
    LET all_ratings == CriterionRatings(self.responses, criterion_id)
    IN [count |-> Len(all_ratings), mean |-> Average(all_ratings),
        min |-> MinRating(all_ratings), max |-> MaxRating(all_ratings)]

\* get_feedback_stats(): what is returned; a name registered twice keeps
\* the statistics of the last criterion that has ratings
GetFeedbackStats(self) ==
    IF self.responses = <<>> THEN [status |-> "ok", value |-> EmptyDict]
    ELSE
    LET rated == {cid \in DOMAIN self.criteria :
                     CriterionRatings(self.responses, cid) # <<>>}
        Last(name) == CHOOSE cid \in rated :
                         /\ self.criteria[cid].name = name
                         /\ \A other \in rated :
                               self.criteria[other].name = name
                                  => other <= cid
    IN [status |-> "ok",
        value |->
          [total_responses |-> Len(self.responses),
           unique_articles |->
              Cardinality({self.responses[k].article_id :
                              k \in 1..Len(self.responses)}),
           unique_evaluators |->
              Cardinality({self.responses[k].evaluator_id :
                              k \in 1..Len(self.responses)}),
           criteria_stats |->
              [name \in {self.criteria[cid].name : cid \in rated} |->
                  CriterionStats(self, Last(name))],
           time_range |-> [start |-> MinTimestamp(self.responses),
                           end |-> MaxTimestamp(self.responses)]]]

GetFeedbackStatsCall(i) ==
    /\ Built(i)
    /\ LET out == GetFeedbackStats(exp[i])
       IN ret' = [inst |-> i, op |-> "get_feedback_stats", args |-> NoArgs,
                  status |-> out.status, value |-> out.value]
    /\ UNCHANGED <<exp, disk, nextId>>

(* ---- the feedback specification ---- *)

\* the name a process binds its FeedbackManager to
FeedbackInst == {"A"}

\* the ratings dict that rates the given criteria, in the order of their ids
RatingsFor(ids, value) ==
    [k \in 1..Len(InOrder(ids)) |-> <<InOrder(ids)[k], value[InOrder(ids)[k]]>>]

\* ratings a caller may pass that rate every registered criterion with a
\* value of the scales in use: 4 and 5 in turn, or 5 and 4 in turn
FullRatings(self) ==
    LET ids == InOrder(DOMAIN self.criteria)
        Turn(first, second) ==
            [k \in 1..Len(ids) |->
                <<ids[k], IF k % 2 = 1 THEN first ELSE second>>]
    IN {Turn(4, 5), Turn(5, 4)}

\* ratings a caller may pass that leave the first criterion out, rate the
\* last one with a value off the scales, or hold a key that is no registered
\* criterion id (first or last)
OtherRatings(self) ==
    LET ids == DOMAIN self.criteria
        fives == [cid \in ids |-> 5]
        first == CHOOSE cid \in ids : \A other \in ids : cid <= other
        last == CHOOSE cid \in ids : \A other \in ids : other <= cid
    IN (IF ids = {} THEN {}
        ELSE {RatingsFor(ids \ {first}, fives),
              RatingsFor(ids, [fives EXCEPT ![last] = 3])})
       \cup {<<<<0, 5>>>> \o RatingsFor(ids, fives),
             RatingsFor(ids, fives) \o <<<<0, 5>>>>}

\* the record_feedback calls a caller may make
RecordFeedbackArgs(self) ==
    {[a |-> a, ratings |-> ratings] :
        a \in FeedbackArgs, ratings \in FullRatings(self)}
    \cup {[a |-> CHOOSE a \in FeedbackArgs : a.evaluator_id = "evaluator2",
           ratings |-> ratings] : ratings \in OtherRatings(self)}

\* A call that raised and a query leave the object and the document as they
\* were: the calls that may follow one are those that may follow the state
\* it was made in, so the next call is taken from there.
AtRest == ret.status = "ok" /\ ret.op \in {"none", "__init__",
                                           "add_criterion", "record_feedback"}

InitFeedback ==
    /\ exp = [i \in Inst |-> Unbuilt]
    /\ disk = [p \in FeedbackPaths |-> NoFile]
    /\ nextId = 1
    /\ ret = [inst |-> "A", op |-> "none", args |-> NoArgs,
              status |-> "ok", value |-> 0]

NextFeedback ==
    \/ AtRest /\ \E i \in FeedbackInst : ConstructFeedback(i)
    \/ AtRest /\ \E i \in FeedbackInst, a \in CriterionArgs :
                    AddCriterion(i, a)
    \/ AtRest /\ \E i \in FeedbackInst :
                    \E c \in (IF Built(i) THEN RecordFeedbackArgs(exp[i])
                              ELSE {}) :
                       RecordFeedback(i, c.a, c.ratings)
    \/ AtRest /\ \E i \in FeedbackInst, article_id \in ArticleIds :
                    CalculateArticleScoreCall(i, article_id)
    \/ AtRest /\ \E i \in FeedbackInst : GetFeedbackStatsCall(i)

SpecFeedback == InitFeedback /\ [][NextFeedback]_vars

(* ---------------------------- the dashboard --------------------------- *)

\* load_experiment: Experiment(name=experiment_name, description="",
\* metrics=[]); the constructor loads the variants and the trials
DashboardExperiment(experiment_name, fs) ==
    NewExperiment(experiment_name, "", <<>>, fs)

LoadExperimentCall(i, experiment_name) ==
    /\ ~Built(i)
    /\ exp' = [exp EXCEPT ![i] = DashboardExperiment(experiment_name, disk)]
    /\ ret' = [inst |-> i, op |-> "load_experiment",
               args |-> [name |-> experiment_name],
               status |-> "ok", value |-> 0]
    /\ UNCHANGED <<disk, nextId>>

\* to_dataframe: one row per trial, in order; the variant of a trial is
\* looked up by subscript
ToDataFrame(self) ==
    IF \E k \in 1..Len(self.trials) :
          self.trials[k].variant_id \notin DOMAIN self.variants
    THEN [status |-> "KeyError", value |-> <<>>]
    ELSE [status |-> "ok",
          value |-> [k \in 1..Len(self.trials) |->
             LET trial == self.trials[k]
                 variant == self.variants[trial.variant_id] IN
             [trial_id |-> trial.id, variant_id |-> trial.variant_id,
              variant_name |-> variant.name, timestamp |-> trial.timestamp,
              title |-> trial.title, keywords |-> trial.keywords,
              metrics |-> trial.metrics, model |-> variant.model,
              temperature |-> variant.temperature]]]

\* mutant: row = trial.metrics, so that row.update(...) writes the variant's
\* columns into the trial's own metrics dict
ToDataFrameCall_Aliased(i) ==
    /\ Built(i)
    /\ LET out == ToDataFrame(exp[i])
           self == exp[i]
       IN /\ ret' = [inst |-> i, op |-> "to_dataframe", args |-> NoArgs,
                     status |-> out.status, value |-> out.value]
          /\ exp' = IF out.status # "ok" THEN exp
                    ELSE [exp EXCEPT ![i].trials =
                       [k \in 1..Len(self.trials) |->
                          [self.trials[k] EXCEPT !.metrics =
                             [m \in DOMAIN @ \cup {"temperature"} |->
                                IF m = "temperature"
                                THEN self.variants[self.trials[k].variant_id]
                                        .temperature
                                ELSE @[m]]]]]
    /\ UNCHANGED <<disk, nextId>>

ToDataFrameCall(i) ==
    /\ Built(i)
    /\ LET out == ToDataFrame(exp[i])
       IN ret' = [inst |-> i, op |-> "to_dataframe", args |-> NoArgs,
                  status |-> out.status, value |-> out.value]
    /\ UNCHANGED <<exp, disk, nextId>>

\* the dashboard's process starts with no object, on a directory that holds
\* the document of a store
InitDashboard ==
    \E draws \in TrialDrawSeqs :
        /\ exp = [i \in Inst |-> Unbuilt]
        /\ disk = SaveExperiment(DrawnStore(draws), [p \in Paths |-> NoFile])
        /\ nextId = 3 + Len(draws)
        /\ ret = [inst |-> "A", op |-> "none", args |-> NoArgs,
                  status |-> "ok", value |-> 0]

\* main(): load_experiment, then to_dataframe of the loaded object
NextDashboard ==
    \/ \E name \in ExperimentNames : LoadExperimentCall("A", name)
    \/ ret.op = "load_experiment" /\ ToDataFrameCall("A")

SpecDashboard == InitDashboard /\ [][NextDashboard]_vars

(* --------------------- failures of the file system -------------------- *)
(* The two stores with a file system whose open() and write() may fail.   *)
(* "A" is the process's Experiment and "B" its FeedbackManager; ret.io is  *)
(* what the file system did during the call.                               *)

\* a file that open(path, "w") has emptied and json.dump has not, or not
\* fully, written: json.load of it raises
Truncated == [truncated |-> TRUE]

\* how  with open(path, "w") as f: json.dump(data, f, indent=2)  may go
WriteOutcomes == {"ok", "open_fails", "dump_fails"}
\* how  with open(path) as f: data = json.load(f)  may go on a sound file
ReadOutcomes == {"ok", "open_fails"}
IOFailures == {"open_fails", "dump_fails", "decode_fails"}

\* mutant: the write is wrapped in try/except and the error is dropped
WriteDocument_Swallow(fs, path, data, io) ==
    IF io = "ok" THEN [status |-> "ok", fs |-> [fs EXCEPT ![path] = data]]
    ELSE IF io = "open_fails" THEN [status |-> "ok", fs |-> fs]
    ELSE [status |-> "ok", fs |-> [fs EXCEPT ![path] = Truncated]]

\* the write at the end of _save_experiment and _save_feedback_data: open
\* for writing empties the file, json.dump then writes the document; an
\* error of either leaves the with block as a raised exception
WriteDocument(fs, path, data, io) ==
    IF io = "ok" THEN [status |-> "ok", fs |-> [fs EXCEPT ![path] = data]]
    ELSE IF io = "open_fails" THEN [status |-> "OSError", fs |-> fs]
    ELSE [status |-> "OSError", fs |-> [fs EXCEPT ![path] = Truncated]]

\* the read at the head of _load_experiment and _load_feedback_data: what
\* the file system does, and the exception that leaves the loader
ReadDocument(fs, path, io) ==
    IF fs[path] = NoFile THEN [status |-> "ok", io |-> "none"]
    ELSE IF io = "open_fails"
    THEN [status |-> "OSError", io |-> "open_fails"]
    ELSE IF fs[path] = Truncated
    THEN [status |-> "JSONDecodeError", io |-> "decode_fails"]
    ELSE [status |-> "ok", io |-> "ok"]

\* Experiment.__init__: an exception of the loader leaves the constructor
\* and no object is bound
ConstructIO(name, io) ==
    /\ ~Built("A")
    /\ LET self == [built |-> TRUE, name |-> name,
                    experiment_dir |-> ExperimentDir]
           read == ReadDocument(disk, Path(self), io) IN
        /\ exp' = [exp EXCEPT !["A"] =
                      IF read.status = "ok"
                      THEN NewExperiment(name, Description, DeclaredMetrics,
                                         disk)
                      ELSE Unbuilt]
        /\ ret' = [inst |-> "A", op |-> "__init__", args |-> [name |-> name],
                   status |-> read.status, value |-> 0, io |-> read.io]
    /\ UNCHANGED <<disk, nextId>>

\* add_variant: the insertion, then the save
AddVariantIO(a, io) ==
    /\ Built("A")
    /\ nextId <= MaxIds
    /\ LET self == WithVariant(exp["A"], Uuid4, a.name, a.metadata)
           write == WriteDocument(disk, Path(self), ExperimentData(self), io)
       IN
        /\ exp' = [exp EXCEPT !["A"] = self]
        /\ disk' = write.fs
        /\ ret' = [inst |-> "A", op |-> "add_variant", args |-> a,
                   status |-> write.status,
                   value |-> IF write.status = "ok" THEN Uuid4 ELSE 0,
                   io |-> io]
    /\ nextId' = nextId + 1

\* record_trial: the validation, the append, then the save
RecordTrialIO(variant_id, a, io) ==
    /\ Built("A")
    /\ IF MissingMetrics(exp["A"], a.metrics) # {}
       THEN /\ ret' = [inst |-> "A", op |-> "record_trial",
                       args |-> [metrics |-> a.metrics],
                       status |-> "ValueError",
                       value |-> "Missing required metrics", io |-> "none"]
            /\ UNCHANGED <<exp, disk, nextId>>
       ELSE /\ nextId <= MaxIds
            /\ LET self == WithTrial(exp["A"], Uuid4, variant_id, a.metrics,
                                     a.metadata, a.now)
                   write == WriteDocument(disk, Path(self),
                                          ExperimentData(self), io) IN
                /\ exp' = [exp EXCEPT !["A"] = self]
                /\ disk' = write.fs
                /\ ret' = [inst |-> "A", op |-> "record_trial",
                           args |-> [metrics |-> a.metrics],
                           status |-> write.status,
                           value |-> IF write.status = "ok" THEN Uuid4 ELSE 0,
                           io |-> io]
            /\ nextId' = nextId + 1

\* FeedbackManager.__init__
ConstructFeedbackIO(io) ==
    /\ ~Built("B")
    /\ LET self == [built |-> TRUE, feedback_dir |-> FeedbackDir]
           read == ReadDocument(disk, FeedbackPath(self), io) IN
        /\ exp' = [exp EXCEPT !["B"] =
                      IF read.status = "ok"
                      THEN NewFeedbackManager(FeedbackDir, disk)
                      ELSE Unbuilt]
        /\ ret' = [inst |-> "B", op |-> "__init__", args |-> NoArgs,
                   status |-> read.status, value |-> 0, io |-> read.io]
    /\ UNCHANGED <<disk, nextId>>

\* add_criterion: the insertion, then the save
AddCriterionIO(a, io) ==
    /\ Built("B")
    /\ nextId <= MaxIds
    /\ LET self == WithCriterion(exp["B"], Uuid4, a.name, a.description,
                                 a.scale, a.weight)
           write == WriteDocument(disk, FeedbackPath(self),
                                  FeedbackData(self), io) IN
        /\ exp' = [exp EXCEPT !["B"] = self]
        /\ disk' = write.fs
        /\ ret' = [inst |-> "B", op |-> "add_criterion", args |-> a,
                   status |-> write.status,
                   value |-> IF write.status = "ok" THEN Uuid4 ELSE 0,
                   io |-> io]
    /\ nextId' = nextId + 1

\* record_feedback: the two validations, the append, then the save
RecordFeedbackIO(a, ratings, io) ==
    /\ Built("B")
    /\ LET args == [article_id |-> a.article_id,
                    evaluator_id |-> a.evaluator_id, ratings |-> ratings]
           error == IF MissingCriteria(exp["B"], ratings) # {}
                    THEN "ValueError"
                    ELSE ValidationError(exp["B"], ratings)
       IN
       IF error # ""
       THEN /\ ret' = [inst |-> "B", op |-> "record_feedback",
                       args |-> args, status |-> error, value |-> "",
                       io |-> "none"]
            /\ UNCHANGED <<exp, disk, nextId>>
       ELSE /\ nextId <= MaxIds
            /\ LET self == WithResponse(exp["B"], Uuid4, a, ratings)
                   write == WriteDocument(disk, FeedbackPath(self),
                                          FeedbackData(self), io) IN
                /\ exp' = [exp EXCEPT !["B"] = self]
                /\ disk' = write.fs
                /\ ret' = [inst |-> "B", op |-> "record_feedback",
                           args |-> args, status |-> write.status,
                           value |-> IF write.status = "ok" THEN Uuid4 ELSE 0,
                           io |-> io]
            /\ nextId' = nextId + 1

\* the process starts with no object; an earlier process may have left
\* either document absent or cut short
InitIO ==
    /\ exp = [i \in Inst |-> Unbuilt]
    /\ disk \in [Paths \cup FeedbackPaths -> {NoFile, Truncated}]
    /\ nextId = 1
    /\ ret = [inst |-> "A", op |-> "none", args |-> NoArgs,
              status |-> "ok", value |-> 0, io |-> "none"]

\* the calls a caller may make: one set of arguments per way a call may go
VariantArgsIO == {a \in VariantArgs : a.metadata = None}
TrialArgsIO == {a \in TrialArgs : a.metadata = None}
CriterionArgsIO == {a \in CriterionArgs : a.weight = DefaultWeight}
FeedbackArgsIO == {a \in FeedbackArgs : a.metadata = None}
RatingsIO(self) ==
    {ratings \in FullRatings(self) :
        \A k \in 1..Len(ratings) : ratings[k][2] = 4 + (k % 2)}

NextIO ==
    \/ \E name \in ExperimentNames, io \in ReadOutcomes :
          ConstructIO(name, io)
    \/ \E a \in VariantArgsIO, io \in WriteOutcomes : AddVariantIO(a, io)
    \/ \E a \in TrialArgsIO, io \in WriteOutcomes :
          \E vid \in VariantIdArgs("A") \ {0} : RecordTrialIO(vid, a, io)
    \/ \E io \in ReadOutcomes : ConstructFeedbackIO(io)
    \/ \E a \in CriterionArgsIO, io \in WriteOutcomes : AddCriterionIO(a, io)
    \/ \E a \in FeedbackArgsIO, io \in WriteOutcomes :
          \E ratings \in (IF Built("B") THEN RatingsIO(exp["B"]) ELSE {}) :
             RecordFeedbackIO(a, ratings, io)

SpecIO == InitIO /\ [][NextIO]_vars

(* ------------------------- the queries of a process ------------------- *)
(* A process that holds an Experiment ("A") and a FeedbackManager ("B"),   *)
(* as the dashboard does, and queries them.                                *)

\* [r for r in self.responses if r.evaluator_id == evaluator_id]
GetEvaluatorFeedback(self, evaluator_id) ==
    SelectSeq(self.responses, LAMBDA r : r.evaluator_id = evaluator_id)

GetArticleFeedbackCall(i, article_id) ==
    /\ Built(i)
    /\ ret' = [inst |-> i, op |-> "get_article_feedback",
               args |-> [article_id |-> article_id],
               status |-> "ok",
               value |-> GetArticleFeedback(exp[i], article_id)]
    /\ UNCHANGED <<exp, disk, nextId>>

GetEvaluatorFeedbackCall(i, evaluator_id) ==
    /\ Built(i)
    /\ ret' = [inst |-> i, op |-> "get_evaluator_feedback",
               args |-> [evaluator_id |-> evaluator_id],
               status |-> "ok",
               value |-> GetEvaluatorFeedback(exp[i], evaluator_id)]
    /\ UNCHANGED <<exp, disk, nextId>>

\* evaluator ids a caller may ask about: one that rated and one that did not
EvaluatorIds == {"evaluator1", "evaluator_0"}

RECURSIVE Responded(_, _, _)
\* the FeedbackManager after one record_feedback call per drawn trial: the
\* article is the trial's, rated by either evaluator with 4 or 5 throughout
Responded(self, draws, response_id) ==
    IF draws = <<>> THEN self
    ELSE Responded(
            WithResponse(self, response_id,
                [article_id |-> IF Head(draws).variant_id = 0
                                THEN "article_0" ELSE "test_article",
                 evaluator_id |-> IF Head(draws).value = 7
                                  THEN "evaluator1" ELSE "evaluator2",
                 now |-> Head(draws).now, comments |-> "",
                 metadata |-> None],
                RatingsFor(DOMAIN self.criteria,
                           [cid \in DOMAIN self.criteria |->
                               IF Head(draws).value = 7 THEN 4 ELSE 5])),
            Tail(draws), response_id + 1)

\* a FeedbackManager after add_criterion("Quality") and
\* add_criterion("Structure") and the drawn record_feedback calls
DrawnFeedback(draws) ==
    Responded(
        WithCriterion(
            WithCriterion(
                NewFeedbackManager(FeedbackDir,
                                   [p \in FeedbackPaths |-> NoFile]),
                1, "Quality", "Content quality", DictScale, 2),
            2, "Structure", "Article structure", DictScale, DefaultWeight),
        draws, 3)

InitQueries ==
    \E draws \in TrialDrawSeqs :
        /\ exp = [i \in Inst |-> IF i = "A" THEN DrawnStore(draws)
                                 ELSE DrawnFeedback(draws)]
        /\ disk = [p \in Paths \cup FeedbackPaths |->
                     IF p \in Paths
                     THEN SaveExperiment(DrawnStore(draws),
                                         [q \in Paths |-> NoFile])[p]
                     ELSE SaveFeedbackData(DrawnFeedback(draws),
                                         [q \in FeedbackPaths |-> NoFile])[p]]
        /\ nextId = 3 + Len(draws)
        /\ ret = [inst |-> "A", op |-> "none", args |-> NoArgs,
                  status |-> "ok", value |-> 0]

\* one query of each pair of drawn stores
NextQueries ==
    /\ ret.op = "none"
    /\ \/ \E metric \in MetricArgs, control \in DrawnVariantIds \cup {0} :
              AnalyzeResultsCall("A", metric, control, FALSE)
       \/ \E metric \in MetricArgs : GetBestVariantCall("A", metric)
       \/ ToDataFrameCall("A")
       \/ \E article_id \in ArticleIds : GetArticleFeedbackCall("B", article_id)
       \/ \E evaluator_id \in EvaluatorIds :
              GetEvaluatorFeedbackCall("B", evaluator_id)
       \/ \E article_id \in ArticleIds :
              CalculateArticleScoreCall("B", article_id)
       \/ GetFeedbackStatsCall("B")

SpecQueries == InitQueries /\ [][NextQueries]_vars

(* ----------------------------- the trace logger ----------------------- *)
(* TraceLogger of article_generation.evaluation.trace_logger.  Its          *)
(* specification keeps the logger in exp["A"], the two trace directories   *)
(* in disk (each a mapping from file name to the JSON document written),   *)
(* and in ret.calls the traces handed to log_trace so far.                 *)

TraceDir == "traces"

\* titles a caller may pass, as their characters
TraceTitles == {<<"A", " ", "b">>, <<"a", "-", "b">>, <<"c">>}
\* str.lower() and str.isalnum() on the characters in use
LowerChar(c) == IF c = "A" THEN "a" ELSE c
IsAlnum(c) == c \in {"A", "a", "b", "c"}

\* "".join(c if c.isalnum() else "_" for c in title.lower())
SafeTitle(title) ==
    [k \in 1..Len(title) |->
        IF IsAlnum(LowerChar(title[k])) THEN LowerChar(title[k]) ELSE "_"]

\* datetime.strftime("%Y%m%d_%H%M%S"): the reading to the second
StrfTime(now) == <<now.sec>>

\* the error argument: None, or an exception with its message
TraceErrors == {None, [exception |-> "Test error"]}

\* TraceLogger.__init__
NewTraceLogger(trace_dir) ==
    [built |-> TRUE, trace_dir |-> trace_dir,
     success_dir |-> <<trace_dir, "success">>,
     error_dir |-> <<trace_dir, "error">>]

\* the trace dict log_trace builds
TraceOf(title, response, error, now) ==
    [timestamp |-> IsoFormat(now), title |-> title, keywords |-> Keywords,
     prompt |-> "Test prompt", response |-> response,
     metadata |-> EmptyDict,
     error |-> IF error = None THEN None ELSE PyStr(error.exception)]

\* the file log_trace opens for writing: the directory the error selects,
\* and the name made of the sanitized title and the reading of the clock
TracePath(self, title, error, now) ==
    <<IF error # None THEN self.error_dir ELSE self.success_dir,
      <<SafeTitle(title), StrfTime(now)>>>>

\* the directories after log_trace's write
WriteTrace(self, fs, title, response, error, now) ==
    LET path == TracePath(self, title, error, now) IN
    [fs EXCEPT ![path[1]] =
        PutVariant(@, path[2], TraceOf(title, response, error, now))]

LogTrace(i, title, error, now) ==
    /\ Built(i)
    /\ Len(ret.calls) < MaxTraces
    /\ disk' = WriteTrace(exp[i], disk, title, EmptyDict, error, now)
    /\ ret' = [inst |-> i, op |-> "log_trace",
               args |-> [title |-> title, error |-> error],
               status |-> "ok",
               value |-> TracePath(exp[i], title, error, now),
               calls |-> Append(ret.calls,
                                TraceOf(title, EmptyDict, error, now))]
    /\ UNCHANGED <<exp, nextId>>

\* the comparison of two isoformat() strings: a string without a fraction
\* is a prefix of, and so less than, one of the same second with a fraction
IsoStringLe(s, t) ==
    \/ s.seconds < t.seconds
    \/ /\ s.seconds = t.seconds
       /\ \/ s.fraction = <<>>
          \/ t.fraction # <<>> /\ s.fraction[1] <= t.fraction[1]

\* the files get_traces reads: those of the success directory and, unless
\* success_only, of the error directory
TraceFiles(self, fs, success_only) ==
    UNION {{<<d, fn>> : fn \in DOMAIN fs[d]} :
              d \in IF success_only THEN {self.success_dir}
                    ELSE {self.success_dir, self.error_dir}}

\* the date filter of get_traces on one loaded trace
InDateRange(trace, start_date, end_date) ==
    LET trace_date == FromIsoFormat(trace.timestamp) IN
    /\ start_date = None \/ DateTimeLe(start_date, trace_date)
    /\ end_date = None \/ DateTimeLe(trace_date, end_date)

\* get_traces: the lists sorted(..., reverse=True) may return; traces with
\* equal timestamps keep the order os.listdir gave them, which is arbitrary
GetTraces(self, fs, success_only, start_date, end_date) ==
    LET kept == {f \in TraceFiles(self, fs, success_only) :
                    InDateRange(fs[f[1]][f[2]], start_date, end_date)}
        n == Cardinality(kept)
        orders == {o \in [1..n -> kept] :
                     /\ \A j, k \in 1..n : j # k => o[j] # o[k]
                     /\ \A j, k \in 1..n : j < k =>
                           IsoStringLe(fs[o[k][1]][o[k][2]].timestamp,
                                       fs[o[j][1]][o[j][2]].timestamp)}
    IN {[k \in 1..n |-> fs[o[k][1]][o[k][2]]] : o \in orders}

GetTracesCall(i, success_only, dates) ==
    /\ Built(i)
    /\ \E traces \in GetTraces(exp[i], disk, success_only, dates.start_date,
                               dates.end_date) :
          ret' = [inst |-> i, op |-> "get_traces",
                  args |-> [success_only |-> success_only,
                            start_date |-> dates.start_date,
                            end_date |-> dates.end_date],
                  status |-> "ok", value |-> traces, calls |-> ret.calls]
    /\ UNCHANGED <<exp, disk, nextId>>

\* the date arguments a caller may pass
DateFilters ==
    {[start_date |-> None, end_date |-> None],
     [start_date |-> [sec |-> 1, usec |-> 0], end_date |-> None],
     [start_date |-> None, end_date |-> [sec |-> 0, usec |-> 500000]]}

\* the logger of the test fixture, on an empty directory
InitTrace ==
    /\ exp = [i \in Inst |-> IF i = "A" THEN NewTraceLogger(TraceDir)
                             ELSE Unbuilt]
    /\ disk = [d \in {<<TraceDir, "success">>, <<TraceDir, "error">>} |->
                  EmptyDict]
    /\ nextId = 1
    /\ ret = [inst |-> "A", op |-> "none", args |-> NoArgs,
              status |-> "ok", value |-> 0, calls |-> <<>>]

\* get_traces changes nothing: the calls that may follow it are those that
\* may follow the state it was made in
NextTrace ==
    /\ ret.op \in {"none", "log_trace"}
    /\ \/ \E title \in TraceTitles, error \in TraceErrors, now \in DateTimes :
             LogTrace("A", title, error, now)
       \/ \E success_only \in BOOLEAN, dates \in DateFilters :
             GetTracesCall("A", success_only, dates)

SpecTrace == InitTrace /\ [][NextTrace]_vars

(* ------------------------------ the evaluator ------------------------- *)
(* ArticleEvaluator of article_generation.evaluation.evaluator.  The LLM   *)
(* client is the environment: a call of it raises, or returns a response   *)
(* whose text is a string of the characters below (no white space, so      *)
(* that strip() leaves it as it is).                                       *)

DoubleQuote == "\""
SingleQuote == "'"
TextChars == {"{", "}", ":", DoubleQuote, SingleQuote}
\* the short texts, and each shorter one as the value of an object's entry
ShortTexts(n) == UNION {[1..k -> TextChars] : k \in 0..n}
Texts ==
    ShortTexts(MaxTextLen)
    \cup {<<"{", q, q, ":">> \o text \o <<"}">> :
             q \in {DoubleQuote, SingleQuote},
             text \in ShortTexts(MaxTextLen - 2)}

\* what json.loads makes of a text that is no JSON
NoJson == [ok |-> FALSE, value |-> None, next |-> 0]

\* a JSON string starting at pos: up to the next double quote
ParseString(text, pos) ==
    IF pos > Len(text) \/ text[pos] # DoubleQuote THEN NoJson
    ELSE LET closes == {k \in (pos + 1)..Len(text) : text[k] = DoubleQuote}
         IN IF closes = {} THEN NoJson
            ELSE LET end == CHOOSE k \in closes : \A j \in closes : k <= j
                 IN [ok |-> TRUE,
                     value |-> PyStr(SubSeq(text, pos + 1, end - 1)),
                     next |-> end + 1]

RECURSIVE ParseValue(_, _)
\* a JSON value starting at pos: a string, {} or {string: value}
ParseValue(text, pos) ==
    IF pos > Len(text) THEN NoJson
    ELSE IF text[pos] = DoubleQuote THEN ParseString(text, pos)
    ELSE IF text[pos] # "{" THEN NoJson
    ELSE IF pos + 1 <= Len(text) /\ text[pos + 1] = "}"
    THEN [ok |-> TRUE, value |-> PyDict(<<>>), next |-> pos + 2]
    ELSE LET key == ParseString(text, pos + 1) IN
         IF ~key.ok \/ key.next > Len(text) \/ text[key.next] # ":"
         THEN NoJson
         ELSE LET val == ParseValue(text, key.next + 1) IN
              IF ~val.ok \/ val.next > Len(text) \/ text[val.next] # "}"
              THEN NoJson
              ELSE [ok |-> TRUE,
                    value |-> PyDict(<<<<key.value, val.value>>>>),
                    next |-> val.next + 1]

\* json.loads(text): the value, or JSONDecodeError (ok is FALSE)
JsonLoads(text) ==
    LET parsed == ParseValue(text, 1) IN
    IF parsed.ok /\ parsed.next = Len(text) + 1
    THEN [ok |-> TRUE, value |-> parsed.value]
    ELSE [ok |-> FALSE, value |-> None]

\* content.replace("'", '"')
ReplaceQuotes(text) ==
    [k \in 1..Len(text) |->
        IF text[k] = SingleQuote THEN DoubleQuote ELSE text[k]]

\* what a call of the LLM client may do
Raises(message) == [raises |-> TRUE, message |-> message]
Returns(text) == [raises |-> FALSE, text |-> text]
EvaluatorFailures == {Raises("API Error"), Raises("overloaded_error")}

\* mutant: the outer handler logs and re-raises
EvaluateArticle_Reraise(llm) ==
    IF llm.raises
    THEN [status |-> "Exception", value |-> PyStr(llm.message)]
    ELSE LET content == llm.text IN
         IF JsonLoads(content).ok
         THEN [status |-> "ok", value |-> JsonLoads(content).value]
         ELSE IF JsonLoads(ReplaceQuotes(content)).ok
         THEN [status |-> "ok",
               value |-> JsonLoads(ReplaceQuotes(content)).value]
         ELSE [status |-> "ok",
               value |-> [error |-> "Failed to parse evaluation response",
                          raw_response |-> content]]

\* evaluate_article, given what the LLM call does
EvaluateArticle(llm) ==
    IF llm.raises
    THEN [status |-> "ok", value |-> [error |-> llm.message]]
    ELSE LET content == llm.text IN
         IF JsonLoads(content).ok
         THEN [status |-> "ok", value |-> JsonLoads(content).value]
         ELSE IF JsonLoads(ReplaceQuotes(content)).ok
         THEN [status |-> "ok",
               value |-> JsonLoads(ReplaceQuotes(content)).value]
         ELSE [status |-> "ok",
               value |-> [error |-> "Failed to parse evaluation response",
                          raw_response |-> content]]

EvaluateArticleCall(i, llm) ==
    /\ Built(i)
    /\ LET out == EvaluateArticle(llm)
       IN ret' = [inst |-> i, op |-> "evaluate_article",
                  args |-> [llm |-> llm],
                  status |-> out.status, value |-> out.value]
    /\ UNCHANGED <<exp, disk, nextId>>

\* ArticleEvaluator(api_key="test_key")
NewArticleEvaluator(api_key) == [built |-> TRUE, api_key |-> api_key]

InitEvaluator ==
    /\ exp = [i \in Inst |-> IF i = "A" THEN NewArticleEvaluator("test_key")
                             ELSE Unbuilt]
    /\ disk = EmptyDict
    /\ nextId = 1
    /\ ret = [inst |-> "A", op |-> "none", args |-> NoArgs,
              status |-> "ok", value |-> 0]

\* the evaluator keeps nothing between calls: one call per behaviour
NextEvaluator ==
    /\ ret.op = "none"
    /\ \E llm \in EvaluatorFailures \cup {Returns(text) : text \in Texts} :
          EvaluateArticleCall("A", llm)

SpecEvaluator == InitEvaluator /\ [][NextEvaluator]_vars

(* ------------------------------ the generator ------------------------- *)
(* ArticleGenerator.generate_article of article_generation.llm.generator,  *)
(* one step per call it awaits or makes.  exp["A"] is the generator: pc is *)
(* the position of the running call, frame its locals, and events the      *)
(* calls it has made so far.                                               *)

\* an exception, with str(e)
Exc(type, message) == [type |-> type, exception |-> message]

\* what messages.create may do for the generator: raise, or return a
\* message whose content list is empty or holds one text block
GeneratorOutcomes ==
    {[raises |-> TRUE, message |-> "API Error"],
     [raises |-> TRUE, message |-> "overloaded_error"],
     [raises |-> FALSE, content |-> <<>>],
     [raises |-> FALSE, content |-> <<"Test article content">>]}

\* what messages.create may do for the evaluator
EvaluatorOutcomes ==
    EvaluatorFailures \cup {Returns(text) : text \in ShortTexts(MaxTextLen - 3)}

\* ArticleGenerator.__init__
NewArticleGenerator(api_key) ==
    [built |-> TRUE, api_key |-> api_key,
     trace_logger |-> NewTraceLogger(TraceDir),
     evaluator |-> NewArticleEvaluator(api_key),
     pc |-> "idle", frame |-> NoArgs, events |-> <<>>]

\* log_trace with a write that may fail: the directories afterwards, and
\* the exception log_trace re-raises
TryWriteTrace(self, fs, title, response, error, now, io) ==
    LET path == TracePath(self, title, error, now) IN
    IF io = "ok"
    THEN [status |-> "ok",
          fs |-> WriteTrace(self, fs, title, response, error, now)]
    ELSE IF io = "open_fails" THEN [status |-> "OSError", fs |-> fs]
    ELSE [status |-> "OSError",
          fs |-> [fs EXCEPT ![path[1]] = PutVariant(@, path[2], Truncated)]]

\* generate_article is called: the prompt is built
GenerateArticle(i, title) ==
    /\ Built(i)
    /\ exp[i].pc = "idle"
    /\ ret.op = "none"
    /\ exp' = [exp EXCEPT ![i].pc = "create",
                          ![i].frame = [title |-> title],
                          ![i].events = <<>>]
    /\ UNCHANGED <<disk, nextId, ret>>

\* await self.client.messages.create(...), then message.content[0].text
MessagesCreate(i, llm) ==
    /\ Built(i)
    /\ exp[i].pc = "create"
    /\ LET self == exp[i]
           title == self.frame.title
           events == Append(self.events, [call |-> "messages.create",
                                          raised |-> llm.raises])
       IN exp' = [exp EXCEPT ![i] =
            IF llm.raises
            THEN [self EXCEPT !.pc = "except", !.events = events,
                     !.frame = [title |-> title, llm |-> llm,
                                e |-> Exc("Exception", llm.message)]]
            ELSE IF llm.content = <<>>
            THEN [self EXCEPT !.pc = "except", !.events = events,
                     !.frame = [title |-> title, llm |-> llm,
                                e |-> Exc("IndexError",
                                          "list index out of range")]]
            ELSE [self EXCEPT !.pc = "log", !.events = events,
                     !.frame = [title |-> title, llm |-> llm,
                                result |-> [title |-> title,
                                            content |-> llm.content[1],
                                            keywords |-> Keywords]]]]
    /\ UNCHANGED <<disk, nextId, ret>>

\* self.trace_logger.log_trace(..., response=result)
LogSuccessTrace(i, now, io) ==
    /\ Built(i)
    /\ exp[i].pc = "log"
    /\ LET self == exp[i]
           write == TryWriteTrace(self.trace_logger, disk, self.frame.title,
                                  self.frame.result, None, now, io)
           events == Append(self.events,
                            [call |-> "log_trace", error |-> None,
                             raised |-> write.status # "ok"])
       IN /\ disk' = write.fs
          /\ exp' = [exp EXCEPT ![i] =
               IF write.status = "ok"
               THEN [self EXCEPT !.pc = "evaluate", !.events = events]
               ELSE [self EXCEPT !.pc = "except", !.events = events,
                        !.frame = [title |-> self.frame.title,
                                   llm |-> self.frame.llm,
                                   e |-> Exc(write.status,
                                             "write failed")]]]
    /\ UNCHANGED <<nextId, ret>>

\* await self.evaluator.evaluate_article(...), then the return
EvaluateGenerated(i, llm) ==
    /\ Built(i)
    /\ exp[i].pc = "evaluate"
    /\ LET self == exp[i]
           out == EvaluateArticle(llm)
           events == Append(self.events, [call |-> "evaluate_article",
                                          raised |-> out.status # "ok"])
       IN IF out.status = "ok"
          THEN /\ exp' = [exp EXCEPT ![i].pc = "idle", ![i].events = events]
               /\ ret' = [inst |-> i, op |-> "generate_article",
                          args |-> [title |-> self.frame.title],
                          status |-> "ok",
                          value |-> [title |-> self.frame.result.title,
                                     content |-> self.frame.result.content,
                                     keywords |->
                                        self.frame.result.keywords,
                                     evaluation |-> out.value]]
          ELSE /\ exp' = [exp EXCEPT ![i] =
                    [self EXCEPT !.pc = "except", !.events = events,
                        !.frame = [title |-> self.frame.title,
                                   llm |-> self.frame.llm,
                                   e |-> Exc(out.status, out.value.val)]]]
               /\ ret' = ret
    /\ UNCHANGED <<disk, nextId>>

\* mutant: the handler logs the error and returns an empty result
LogErrorTrace_Swallow(i, now, io) ==
    /\ Built(i)
    /\ exp[i].pc = "except"
    /\ LET self == exp[i]
           write == TryWriteTrace(self.trace_logger, disk, self.frame.title,
                                  EmptyDict, self.frame.e, now, io)
       IN /\ disk' = write.fs
          /\ exp' = [exp EXCEPT ![i].pc = "idle",
                        ![i].events = Append(self.events,
                            [call |-> "log_trace", error |-> self.frame.e,
                             raised |-> write.status # "ok"])]
          /\ ret' = [inst |-> i, op |-> "generate_article",
                     args |-> [title |-> self.frame.title],
                     status |-> "ok", value |-> EmptyDict]
    /\ UNCHANGED nextId

\* the except block: self.trace_logger.log_trace(..., error=e), then
\* raise e; an exception of log_trace leaves the block instead
LogErrorTrace(i, now, io) ==
    /\ Built(i)
    /\ exp[i].pc = "except"
    /\ LET self == exp[i]
           write == TryWriteTrace(self.trace_logger, disk, self.frame.title,
                                  EmptyDict, self.frame.e, now, io)
       IN /\ disk' = write.fs
          /\ exp' = [exp EXCEPT ![i].pc = "idle",
                        ![i].events = Append(self.events,
                            [call |-> "log_trace", error |-> self.frame.e,
                             raised |-> write.status # "ok"])]
          /\ ret' = [inst |-> i, op |-> "generate_article",
                     args |-> [title |-> self.frame.title],
                     status |-> IF write.status = "ok" THEN self.frame.e.type
                                ELSE write.status,
                     value |-> IF write.status = "ok"
                               THEN self.frame.e.exception
                               ELSE "write failed"]
    /\ UNCHANGED nextId

InitGenerator ==
    /\ exp = [i \in Inst |-> IF i = "A" THEN NewArticleGenerator("test_key")
                             ELSE Unbuilt]
    /\ disk = [d \in {<<TraceDir, "success">>, <<TraceDir, "error">>} |->
                  EmptyDict]
    /\ nextId = 1
    /\ ret = [inst |-> "A", op |-> "none", args |-> NoArgs,
              status |-> "ok", value |-> 0]

NextGenerator ==
    \/ \E title \in TraceTitles : GenerateArticle("A", title)
    \/ \E llm \in GeneratorOutcomes : MessagesCreate("A", llm)
    \/ \E now \in DateTimes, io \in WriteOutcomes :
          LogSuccessTrace("A", now, io)
    \/ \E llm \in EvaluatorOutcomes : EvaluateGenerated("A", llm)
    \/ \E now \in DateTimes, io \in WriteOutcomes :
          LogErrorTrace("A", now, io)

SpecGenerator == InitGenerator /\ [][NextGenerator]_vars

(* ------------------------- the /generate endpoint --------------------- *)
(* generate_content of main.py, one step per call it makes or awaits.      *)
(* exp["A"] is the running request: pc its position, attempt the loop      *)
(* variable, and events the calls made so far.                             *)

\* messages of the exceptions generate_content may raise, as their words
FailureMessages ==
    {<<"Error code: 529", "overloaded_error">>,
     <<"overloaded_error">>,
     <<"overloaded">>,
     <<"API Error">>}

\* 'overloaded_error' in str(e)
IsOverloaded(message) ==
    \E k \in 1..Len(message) : message[k] = "overloaded_error"

\* what one generate_content call may do
AttemptOutcomes ==
    {[raises |-> TRUE, message |-> m] : m \in FailureMessages}
    \cup {[raises |-> FALSE, content |-> "Test article content"]}

\* mutant: every failure is retried while attempts remain
ShouldRetry_Any(message, attempt) == attempt < MaxRetries - 1

\* 'overloaded_error' in str(e) and attempt < max_retries - 1
ShouldRetry(message, attempt) ==
    IsOverloaded(message) /\ attempt < MaxRetries - 1

\* 2 ** attempt
Pow2(attempt) == IF attempt = 0 THEN 1 ELSE IF attempt = 1 THEN 2 ELSE 4

\* the request before the handler runs
NewRequest == [built |-> TRUE, pc |-> "idle", attempt |-> 0, delay |-> 0,
               topic |-> <<>>, events |-> <<>>]

\* POST /generate: ContentManager() is constructed, which may raise, and
\* the loop is entered with attempt 0
PostGenerate(i, topic, init_raises) ==
    /\ Built(i)
    /\ exp[i].pc = "idle"
    /\ ret.op = "none"
    /\ exp' = [exp EXCEPT ![i] =
                  [NewRequest EXCEPT !.topic = topic,
                      !.pc = IF init_raises THEN "raise" ELSE "attempt"]]
    /\ UNCHANGED <<disk, nextId, ret>>

\* one turn of the loop: await content_manager.generate_content(...), then
\* break, or the except block: sleep and continue, or raise
AttemptGenerate(i, outcome) ==
    /\ Built(i)
    /\ exp[i].pc = "attempt"
    /\ exp[i].attempt < MaxRetries
    /\ LET self == exp[i]
           events == Append(self.events,
                            [call |-> "generate_content",
                             attempt |-> self.attempt, outcome |-> outcome])
       IN exp' = [exp EXCEPT ![i] =
            IF ~outcome.raises
            THEN [self EXCEPT !.pc = "save", !.events = events]
            ELSE IF ShouldRetry(outcome.message, self.attempt)
            THEN [self EXCEPT !.pc = "sleep", !.events = events,
                     !.delay = BaseDelay * Pow2(self.attempt)]
            ELSE [self EXCEPT !.pc = "raise", !.events = events]]
    /\ UNCHANGED <<disk, nextId, ret>>

\* await asyncio.sleep(delay); continue
SleepAndContinue(i) ==
    /\ Built(i)
    /\ exp[i].pc = "sleep"
    /\ exp' = [exp EXCEPT ![i].pc = "attempt",
                          ![i].attempt = exp[i].attempt + 1]
    /\ UNCHANGED <<disk, nextId, ret>>

\* paths = content_manager.save_content(content), which may raise
SaveContent(i, io) ==
    /\ Built(i)
    /\ exp[i].pc = "save"
    /\ exp' = [exp EXCEPT
                  ![i].pc = IF io = "ok" THEN "respond" ELSE "raise",
                  ![i].events = Append(exp[i].events,
                                       [call |-> "save_content",
                                        raised |-> io # "ok"])]
    /\ disk' = IF io = "ok"
               THEN PutVariant(disk, exp[i].topic, "Test article content")
               ELSE disk
    /\ UNCHANGED <<nextId, ret>>

\* the saved files are read and the response is built; a failure to read
\* raises HTTPException(500), which the outer handler wraps in another
Respond(i, read_ok) ==
    /\ Built(i)
    /\ exp[i].pc = "respond"
    /\ exp' = [exp EXCEPT ![i].pc = "idle"]
    /\ ret' = [inst |-> i, op |-> "POST /generate",
               args |-> [topic |-> exp[i].topic],
               status |-> IF read_ok THEN "200" ELSE "500",
               value |-> IF read_ok THEN "success"
                         ELSE "Error reading generated files"]
    /\ UNCHANGED <<disk, nextId>>

\* the outer except block: raise HTTPException(status_code=500, ...)
RaiseHTTPException(i) ==
    /\ Built(i)
    /\ exp[i].pc = "raise"
    /\ exp' = [exp EXCEPT ![i].pc = "idle"]
    /\ ret' = [inst |-> i, op |-> "POST /generate",
               args |-> [topic |-> exp[i].topic],
               status |-> "500", value |-> "An error occurred"]
    /\ UNCHANGED <<disk, nextId>>

InitGenerate ==
    /\ exp = [i \in Inst |-> IF i = "A" THEN NewRequest ELSE Unbuilt]
    /\ disk = EmptyDict
    /\ nextId = 1
    /\ ret = [inst |-> "A", op |-> "none", args |-> NoArgs,
              status |-> "ok", value |-> 0]

NextGenerate ==
    \/ \E topic \in TraceTitles, init_raises \in BOOLEAN :
          PostGenerate("A", topic, init_raises)
    \/ \E outcome \in AttemptOutcomes : AttemptGenerate("A", outcome)
    \/ SleepAndContinue("A")
    \/ \E io \in {"ok", "open_fails"} : SaveContent("A", io)
    \/ \E read_ok \in BOOLEAN : Respond("A", read_ok)
    \/ RaiseHTTPException("A")

SpecGenerate == InitGenerate /\ [][NextGenerate]_vars

(* ------------------------------- claims ------------------------------- *)

\* vocabulary of the claims

Mutations == {"add_variant", "record_trial"}
\* the last call was a mutation of object i that returned
Mutated(i) == ret.inst = i /\ ret.op \in Mutations /\ ret.status = "ok"
IsPrefix(s, t) == Len(s) <= Len(t) /\ SubSeq(t, 1, Len(s)) = s
TrialIds(trials) == {trials[k].id : k \in 1..Len(trials)}

\* C1: whenever an add_variant or record_trial call on an Experiment has
\* returned, a fresh Experiment constructed on the same name and directory
\* holds the same variants (ids and fields) and the same trials (ids, variant
\* ids, metrics, metadata, timestamps) in the same order.
C1_RoundTrip ==
    \A i \in Inst :
        Mutated(i) =>
            LET fresh == NewExperiment(exp[i].name, exp[i].description,
                                       exp[i].metrics, disk)
            IN /\ fresh.variants = exp[i].variants
               /\ fresh.trials = exp[i].trials

\* a record_trial has returned on an object that holds a variant with
\* metadata, a trial stamped on a whole second and a trial with metadata
C1_Witness ==
    \E i \in Inst :
        /\ Mutated(i) /\ ret.op = "record_trial"
        /\ \E vid \in DOMAIN exp[i].variants :
              exp[i].variants[vid].metadata = Metadata
        /\ \E k \in 1..Len(exp[i].trials) :
              exp[i].trials[k].timestamp.usec = 0
        /\ \E k \in 1..Len(exp[i].trials) :
              /\ exp[i].trials[k].timestamp.usec # 0
              /\ exp[i].trials[k].metadata = Metadata

\* C2: a record_trial call whose metrics lack a declared metric name ends in
\* the validation error and changes neither the object's trials nor the
\* file system.
C2_MissingMetricRejected ==
    [][(/\ ret'.op = "record_trial"
        /\ Range(exp[ret'.inst].metrics) \ DOMAIN ret'.args.metrics # {})
       => (/\ ret'.status = "ValueError"
           /\ exp' = exp
           /\ disk' = disk)]_vars

\* a call that lacked one declared metric (and held the other) was rejected
\* on an object that already has a persisted trial
C2_Witness ==
    /\ ret.op = "record_trial"
    /\ ret.status = "ValueError"
    /\ DOMAIN ret.args.metrics = {"structure_score"}
    /\ Len(exp[ret.inst].trials) >= 1
    /\ disk[Path(exp[ret.inst])] # NoFile

\* C3: every trial's variant_id is a key of the object's variants mapping
\* (record_trial with an unregistered variant_id appends nothing).
C3_TrialVariantRegistered ==
    \A i \in Inst :
        Built(i) =>
            \A k \in 1..Len(exp[i].trials) :
                exp[i].trials[k].variant_id \in DOMAIN exp[i].variants

\* C4: whenever an add_variant or record_trial call has returned, the
\* document at the object's path holds the object's name, description,
\* metrics, every variant and every trial, in order.
C4_WriteThrough ==
    \A i \in Inst :
        Mutated(i) =>
            LET self == exp[i]
                doc == disk[Path(self)]
            IN /\ doc # NoFile
               /\ doc.name = self.name
               /\ doc.description = self.description
               /\ doc.metrics = self.metrics
               /\ DOMAIN doc.variants = DOMAIN self.variants
               /\ \A vid \in DOMAIN self.variants :
                     doc.variants[vid] = self.variants[vid]
               /\ Len(doc.trials) = Len(self.trials)
               /\ \A k \in 1..Len(self.trials) :
                     /\ doc.trials[k].id = self.trials[k].id
                     /\ doc.trials[k].variant_id = self.trials[k].variant_id
                     /\ FromIsoFormat(doc.trials[k].timestamp)
                           = self.trials[k].timestamp
                     /\ doc.trials[k].title = self.trials[k].title
                     /\ doc.trials[k].keywords = self.trials[k].keywords
                     /\ doc.trials[k].metrics = self.trials[k].metrics
                     /\ doc.trials[k].evaluation = self.trials[k].evaluation
                     /\ doc.trials[k].metadata = self.trials[k].metadata

\* a mutation has returned on an object holding a variant and two trials
C4_Witness ==
    \E i \in Inst :
        /\ Mutated(i)
        /\ DOMAIN exp[i].variants # {}
        /\ Len(exp[i].trials) >= 2

\* C5: in every step an object's trials list before the step is a prefix of
\* its trials list after it, and a record_trial that returns lengthens the
\* list by exactly one trial, whose id is the returned value.
C5_TrialsAppendOnly ==
    [][/\ \A i \in Inst :
             Built(i) => /\ exp'[i].built
                         /\ IsPrefix(exp[i].trials, exp'[i].trials)
       /\ (ret'.op = "record_trial" /\ ret'.status = "ok")
             => LET old == exp[ret'.inst].trials
                    new == exp'[ret'.inst].trials
                IN /\ Len(new) = Len(old) + 1
                   /\ new[Len(new)].id = ret'.value
                   /\ ret'.value \notin TrialIds(old)]_vars

\* a record_trial has returned on an object that already held a trial
C5_Witness ==
    /\ ret.op = "record_trial"
    /\ ret.status = "ok"
    /\ Len(exp[ret.inst].trials) >= 2
    /\ exp[ret.inst].trials[Len(exp[ret.inst].trials)].id = ret.value

C7_LostUpdate ==
    [][(/\ ret.op \in Mutations /\ ret.status = "ok"
        /\ ret'.op \in Mutations /\ ret'.status = "ok"
        /\ ret'.inst # ret.inst
        /\ Path(exp[ret'.inst]) = Path(exp[ret.inst]))
       => LET doc == disk'[Path(exp'[ret'.inst])]
          IN /\ DOMAIN doc.variants = DOMAIN exp'[ret'.inst].variants
             /\ TrialIds(doc.trials) = TrialIds(exp'[ret'.inst].trials)
             /\ ret.value \notin DOMAIN doc.variants
             /\ ret.value \notin TrialIds(doc.trials)
             /\ ret.value \in DOMAIN disk[Path(exp[ret.inst])].variants
                   \cup TrialIds(disk[Path(exp[ret.inst])].trials)]_vars

\* the last writer's document lacks a variant and a trial that the other
\* object, built on the same path, holds and had written
C7_Witness ==
    \E i, j \in Inst :
        /\ i # j /\ Mutated(i) /\ Built(j)
        /\ Path(exp[i]) = Path(exp[j])
        /\ DOMAIN exp[j].variants \ DOMAIN disk[Path(exp[i])].variants # {}
        /\ TrialIds(exp[j].trials)
              \ TrialIds(disk[Path(exp[i])].trials) # {}

\* the number of trials an object holds for a variant id
TrialCount(self, variant_id) ==
    Cardinality({k \in 1..Len(self.trials) :
                    self.trials[k].variant_id = variant_id})

\* C8: analyze_results(metric, control_variant) ends in an error whenever no
\* trial of the object has variant_id = control_variant (also when it holds
\* no trial at all), and the call changes neither the object nor the file
\* system.
C8_NoControlDataFails ==
    [][(/\ ret'.op = "analyze_results"
        /\ TrialCount(exp[ret'.inst], ret'.args.control) = 0)
       => (/\ ret'.status # "ok"
           /\ exp' = exp
           /\ disk' = disk)]_vars

\* the call failed for a declared metric and a registered control variant
\* without trials, on an object that holds trials of another variant
C8_Witness ==
    /\ ret.op = "analyze_results"
    /\ ret.status = "ValueError"
    /\ ret.value = "No data for control variant"
    /\ ret.args.control \in DOMAIN exp[ret.inst].variants
    /\ Len(exp[ret.inst].trials) >= 2

\* C9: for a declared metric and a registered control variant with a trial,
\* analyze_results returns, and the "variants" section has an entry for the
\* control and for every other registered variant that has a trial, and for
\* no one else; each entry's sample_size is that variant's number of trials.
C9_VariantEntries ==
    (/\ ret.op = "analyze_results"
     /\ ret.args.metric \in Range(exp[ret.inst].metrics)
     /\ ret.args.control \in DOMAIN exp[ret.inst].variants
     /\ TrialCount(exp[ret.inst], ret.args.control) >= 1)
    => LET self == exp[ret.inst]
       IN /\ ret.status = "ok"
          /\ DOMAIN ret.value.variants =
                {ret.args.control} \cup
                {vid \in DOMAIN self.variants : TrialCount(self, vid) >= 1}
          /\ \A vid \in DOMAIN ret.value.variants :
                ret.value.variants[vid].sample_size = TrialCount(self, vid)

\* a report whose control has two trials and which leaves out a registered
\* variant that has none, on an object holding a trial of no registered
\* variant
C9_Witness ==
    /\ ret.op = "analyze_results"
    /\ ret.status = "ok"
    /\ ret.value.variants[ret.args.control].sample_size = 2
    /\ \E vid \in DOMAIN exp[ret.inst].variants :
          vid \notin DOMAIN ret.value.variants
    /\ TrialCount(exp[ret.inst], 0) = 1

\* C10: the summary of a returned analyze_results has total_trials = the
\* number of all trials, start_date and end_date = the least and the
\* greatest trial timestamp (so start_date <= end_date), and
\* significant_improvements = the number of entries other than the control's
\* that are flagged significant and have improvement > 0.
C10_Summary ==
    (ret.op = "analyze_results" /\ ret.status = "ok")
    => LET trials == exp[ret.inst].trials
           entries == ret.value.variants
           summary == ret.value.summary
       IN /\ summary.total_trials = Len(trials)
          /\ \E k \in 1..Len(trials) :
                trials[k].timestamp = summary.start_date
          /\ \E k \in 1..Len(trials) :
                trials[k].timestamp = summary.end_date
          /\ \A k \in 1..Len(trials) :
                /\ DateTimeLe(summary.start_date, trials[k].timestamp)
                /\ DateTimeLe(trials[k].timestamp, summary.end_date)
          /\ DateTimeLe(summary.start_date, summary.end_date)
          /\ summary.significant_improvements =
                Cardinality({vid \in DOMAIN entries \ {ret.args.control} :
                                /\ entries[vid].significant
                                /\ Positive(entries[vid].improvement)})

\* a report that counts one significant improvement, over trials whose
\* first one is not the earliest
C10_Witness ==
    /\ ret.op = "analyze_results"
    /\ ret.status = "ok"
    /\ ret.value.summary.significant_improvements = 1
    /\ ret.value.summary.total_trials = 3
    /\ ret.value.summary.start_date # ret.value.summary.end_date
    /\ exp[ret.inst].trials[1].timestamp # ret.value.summary.start_date

BaselineWithTrials(self) ==
    {vid \in DOMAIN self.variants :
        /\ self.variants[vid].name \in {"baseline", "Baseline"}
        /\ TrialCount(self, vid) > 0}

MetricSum(self, m, vid) ==
    SumSeq([k \in 1..Len(self.trials) |->
               IF self.trials[k].variant_id = vid
               THEN self.trials[k].metrics[m] ELSE 0])

C14_BestVariant ==
    (ret.op = "get_best_variant"
       /\ ret.args.metric \in Range(exp[ret.inst].metrics))
    => LET self == exp[ret.inst]
           m == ret.args.metric
       IN /\ ret.status = "ok"
          /\ IF self.trials = <<>>
             THEN ret.value = {}
             ELSE \E best \in DOMAIN self.variants :
                  /\ ret.value = {best}
                  /\ TrialCount(self, best) > 0
                  /\ \A w \in DOMAIN self.variants :
                        TrialCount(self, w) > 0 =>
                           MetricSum(self, m, w) * TrialCount(self, best)
                              <= MetricSum(self, m, best) * TrialCount(self, w)

(* ---- claims about the feedback store ---- *)

\* a step is a record_feedback call on the object "A"
RecordFeedbackStep == ret'.op = "record_feedback" /\ ret'.inst = "A"

\* the scale is a list of single-entry {value: description} dicts
IsListOfSingleEntryDicts(scale) ==
    /\ scale.type = "list"
    /\ \A k \in 1..Len(scale.items) :
          scale.items[k].type = "dict" /\ Len(scale.items[k].items) = 1

\* the rating values a scale declares, in either form
DeclaredValues(scale) ==
    IF scale.type = "list"
    THEN {IntOf(PyStr(scale.items[k].items[1][1])) :
             k \in 1..Len(scale.items)}
    ELSE {IntOf(PyStr(scale.items[k][1])) : k \in 1..Len(scale.items)}

\* C15: a record_feedback call succeeds whenever every registered criterion
\* has a scale that is a list of single-entry {value: description} dicts and
\* ratings maps every registered criterion id to one of its scale values: it
\* appends one response with the given article_id, evaluator_id and
\* ratings, persists, and returns the response's id.
C15_RecordFeedbackSucceeds ==
    [][(/\ RecordFeedbackStep
        /\ \A cid \in DOMAIN exp["A"].criteria :
              IsListOfSingleEntryDicts(exp["A"].criteria[cid].scale)
        /\ RatingKeys(ret'.args.ratings) = DOMAIN exp["A"].criteria
        /\ \A cid \in DOMAIN exp["A"].criteria :
              RatingOf(ret'.args.ratings, cid)
                 \in DeclaredValues(exp["A"].criteria[cid].scale))
       => /\ ret'.status = "ok"
          /\ Len(exp'["A"].responses) = Len(exp["A"].responses) + 1
          /\ SubSeq(exp'["A"].responses, 1, Len(exp["A"].responses))
                = exp["A"].responses
          /\ LET r == exp'["A"].responses[Len(exp'["A"].responses)] IN
              /\ r.id = ret'.value
              /\ r.article_id = ret'.args.article_id
              /\ r.evaluator_id = ret'.args.evaluator_id
              /\ r.ratings = ret'.args.ratings
          /\ disk'[FeedbackPath(exp'["A"])] = FeedbackData(exp'["A"])]_vars

\* C16: a record_feedback call whose ratings omit a registered criterion id
\* raises the ValueError for missing ratings and leaves the responses and
\* the document as they were; so a response that is appended rates every
\* criterion registered at that moment.
C16_MissingRatingRejected ==
    [][RecordFeedbackStep =>
        /\ (~(DOMAIN exp["A"].criteria \subseteq RatingKeys(ret'.args.ratings))
            => /\ ret'.status = "ValueError"
               /\ ret'.value = "Missing ratings for criteria"
               /\ exp' = exp
               /\ disk' = disk)
        /\ (exp'["A"].responses # exp["A"].responses
            => DOMAIN exp["A"].criteria
                  \subseteq RatingKeys(
                      exp'["A"].responses[Len(exp'["A"].responses)].ratings))
      ]_vars

\* two criteria are registered and the call rated only one of them
C16_Witness ==
    /\ ret.op = "record_feedback"
    /\ ret.status = "ValueError"
    /\ ret.value = "Missing ratings for criteria"
    /\ Cardinality(DOMAIN exp["A"].criteria) = 2
    /\ Len(ret.args.ratings) = 1
    /\ RatingKeys(ret.args.ratings) \subseteq DOMAIN exp["A"].criteria

\* C17: a record_feedback call that rates every registered criterion, and
\* only those, with some value that is not among the declared scale values
\* of its criterion raises the ValueError for an invalid rating and appends
\* no response.
C17_InvalidRatingRejected ==
    [][(/\ RecordFeedbackStep
        /\ RatingKeys(ret'.args.ratings) = DOMAIN exp["A"].criteria
        /\ \E cid \in DOMAIN exp["A"].criteria :
              RatingOf(ret'.args.ratings, cid)
                 \notin DeclaredValues(exp["A"].criteria[cid].scale))
       => /\ ret'.status = "ValueError"
          /\ ret'.value = "Invalid rating"
          /\ exp'["A"].responses = exp["A"].responses]_vars

\* the ratings the responses for an article give a criterion
ArticleRatings(self, article_id, cid) ==
    LET rs == self.responses
        rated == {k \in 1..Len(rs) :
                     /\ rs[k].article_id = article_id
                     /\ cid \in RatingKeys(rs[k].ratings)}
    IN [count |-> Cardinality(rated),
        sum |-> SumSeq([k \in 1..Len(rs) |->
                          IF k \in rated THEN RatingOf(rs[k].ratings, cid)
                          ELSE 0])]

RECURSIVE SumOfAverages(_, _, _)
\* the sum of (average x weight) over the given criteria that have a rating
\* for the article, as a fraction
SumOfAverages(self, article_id, ids) ==
    IF ids = {} THEN [num |-> 0, den |-> 1]
    ELSE LET cid == CHOOSE x \in ids : TRUE
             rest == SumOfAverages(self, article_id, ids \ {cid})
             a == ArticleRatings(self, article_id, cid)
         IN IF a.count = 0 THEN rest
            ELSE [num |-> a.sum * self.criteria[cid].weight * rest.den
                             + rest.num * a.count,
                  den |-> a.count * rest.den]

\* the sum of the weights of the given criteria
SumOfWeights(self, ids) ==
    SumSeq([k \in 1..Len(InOrder(ids)) |->
               self.criteria[InOrder(ids)[k]].weight])

\* what the claim says of a result for an article that has responses:
\* every criterion with a rating has its name mapped to the mean of its
\* ratings, no other criterion's name is a key, and 'overall' is the
\* weighted sum over the criteria with data divided by all the weights
ScoresAsClaimed(self, article_id, scores) ==
    LET ids == DOMAIN self.criteria
        with == {cid \in ids : ArticleRatings(self, article_id, cid).count > 0}
        ws == SumOfAverages(self, article_id, ids)
    IN /\ DOMAIN scores = {self.criteria[cid].name : cid \in with}
                             \cup {"overall"}
       /\ \A cid \in with :
             LET a == ArticleRatings(self, article_id, cid)
                 v == scores[self.criteria[cid].name]
             IN v.den # 0 /\ v.num * a.count = a.sum * v.den
       /\ scores["overall"].den # 0
       /\ scores["overall"].num * (ws.den * SumOfWeights(self, ids))
             = ws.num * scores["overall"].den

\* the article has a response
HasResponses(self, article_id) ==
    \E k \in 1..Len(self.responses) :
        self.responses[k].article_id = article_id

\* some registered criterion has a rating for the article
HasRatings(self, article_id) ==
    \E cid \in DOMAIN self.criteria :
        ArticleRatings(self, article_id, cid).count > 0

\* no two registered criteria have the same name
DistinctNames(self) ==
    \A c1, c2 \in DOMAIN self.criteria :
        self.criteria[c1].name = self.criteria[c2].name => c1 = c2

\* C18 as claimed: calculate_article_score returns an empty mapping when
\* the article has no responses, and otherwise the per-criterion means and
\* the 'overall' score.
C18_ArticleScoreAsClaimed ==
    ret.op = "calculate_article_score"
    => /\ ret.status = "ok"
       /\ IF ~HasResponses(exp["A"], ret.args.article_id)
          THEN DOMAIN ret.value = {}
          ELSE ScoresAsClaimed(exp["A"], ret.args.article_id, ret.value)

\* C18: calculate_article_score returns an empty mapping when the article
\* has no response or no registered criterion has a rating for it;
\* otherwise, when no two registered criteria have the same name, it maps
\* the name of each criterion with a rating for the article to the mean of
\* those ratings, omits the other criteria, and sets 'overall' to the sum of
\* (average x weight) over the criteria with data divided by the sum of the
\* weights of all registered criteria.
C18_ArticleScore ==
    ret.op = "calculate_article_score"
    => /\ ret.status = "ok"
       /\ IF ~HasResponses(exp["A"], ret.args.article_id)
             \/ ~HasRatings(exp["A"], ret.args.article_id)
          THEN DOMAIN ret.value = {}
          ELSE DistinctNames(exp["A"])
                  => ScoresAsClaimed(exp["A"], ret.args.article_id, ret.value)

\* Quality (weight 2) rated 4 and 5, Structure (weight 1) rated 5 and 4:
\* Quality 4.5, Structure 4.5, overall 4.5
C18_Witness ==
    /\ ret.op = "calculate_article_score"
    /\ ret.status = "ok"
    /\ LET self == exp["A"] IN
        /\ DOMAIN self.criteria = {1, 2}
        /\ self.criteria[1].name = "Quality" /\ self.criteria[1].weight = 2
        /\ self.criteria[2].name = "Structure"
        /\ self.criteria[2].weight = 1
        /\ Len(self.responses) = 2
        /\ self.responses[1].ratings = <<<<1, 4>>, <<2, 5>>>>
        /\ self.responses[2].ratings = <<<<1, 5>>, <<2, 4>>>>
    /\ DOMAIN ret.value = {"Quality", "Structure", "overall"}
    /\ ret.value["Quality"].num * 2 = 9 * ret.value["Quality"].den
    /\ ret.value["Structure"].num * 2 = 9 * ret.value["Structure"].den
    /\ ret.value["overall"].num * 2 = 9 * ret.value["overall"].den

\* the responses that rate a criterion
RatingCount(self, cid) ==
    Cardinality({k \in 1..Len(self.responses) :
                    cid \in RatingKeys(self.responses[k].ratings)})

\* the totals of the statistics are those of the stored responses
StatsTotals(self, stats) ==
    /\ stats.total_responses = Len(self.responses)
    /\ stats.unique_articles =
          Cardinality({self.responses[k].article_id :
                          k \in 1..Len(self.responses)})
    /\ stats.unique_evaluators =
          Cardinality({self.responses[k].evaluator_id :
                          k \in 1..Len(self.responses)})

\* the entry of a criterion: its count, and min <= mean <= max
StatsOfCriterion(self, stats, cid) ==
    /\ self.criteria[cid].name \in DOMAIN stats.criteria_stats
    /\ LET e == stats.criteria_stats[self.criteria[cid].name] IN
        /\ e.count = RatingCount(self, cid)
        /\ e.mean.den > 0
        /\ e.min * e.mean.den <= e.mean.num
        /\ e.mean.num <= e.max * e.mean.den

\* C19 as claimed: every criterion with a rating has its count under its
\* name.
C19_FeedbackStatsAsClaimed ==
    ret.op = "get_feedback_stats"
    => /\ ret.status = "ok"
       /\ IF exp["A"].responses = <<>>
          THEN DOMAIN ret.value = {}
          ELSE /\ StatsTotals(exp["A"], ret.value)
               /\ \A cid \in DOMAIN exp["A"].criteria :
                     RatingCount(exp["A"], cid) > 0
                        => StatsOfCriterion(exp["A"], ret.value, cid)

\* C19: get_feedback_stats returns an empty mapping when no responses
\* exist; otherwise total_responses, unique_articles and unique_evaluators
\* count the stored responses and their distinct article and evaluator ids,
\* and for every criterion with a rating whose name no other registered
\* criterion has, criteria_stats[name] has the count of the responses
\* rating it and min <= mean <= max.
C19_FeedbackStats ==
    ret.op = "get_feedback_stats"
    => /\ ret.status = "ok"
       /\ IF exp["A"].responses = <<>>
          THEN DOMAIN ret.value = {}
          ELSE /\ StatsTotals(exp["A"], ret.value)
               /\ \A cid \in DOMAIN exp["A"].criteria :
                     (/\ RatingCount(exp["A"], cid) > 0
                      /\ \A other \in DOMAIN exp["A"].criteria \ {cid} :
                            exp["A"].criteria[other].name
                               # exp["A"].criteria[cid].name)
                        => StatsOfCriterion(exp["A"], ret.value, cid)

\* three responses, the first recorded before the criterion was added and
\* the others rating it 4 and 5
C19_Witness ==
    /\ ret.op = "get_feedback_stats"
    /\ ret.status = "ok"
    /\ Len(exp["A"].responses) = 3
    /\ DOMAIN exp["A"].criteria = {2}
    /\ ret.value.total_responses = 3
    /\ ret.value.unique_articles = 2
    /\ ret.value.unique_evaluators = 2
    /\ ret.value.criteria_stats["Quality"].count = 2
    /\ ret.value.criteria_stats["Quality"].min = 4
    /\ ret.value.criteria_stats["Quality"].max = 5

\* C20: whenever an add_criterion or record_feedback call has returned, a
\* fresh FeedbackManager constructed on the same feedback_dir holds the same
\* criteria (ids, names, descriptions, scales, weights) and the same
\* responses (ids, article and evaluator ids, timestamps, ratings, comments,
\* metadata) in the same order, read from feedback_data.json.
C20_FeedbackRoundTrip ==
    (ret.op \in {"add_criterion", "record_feedback"} /\ ret.status = "ok")
    => LET fresh == NewFeedbackManager(exp["A"].feedback_dir, disk) IN
        /\ disk[<<exp["A"].feedback_dir, "feedback_data.json">>] # NoFile
        /\ fresh.criteria = exp["A"].criteria
        /\ fresh.responses = exp["A"].responses

\* a criterion of each scale form and a response with comments, metadata
\* and a timestamp with microseconds
C20_Witness ==
    /\ ret.op = "add_criterion" /\ ret.status = "ok"
    /\ Len(exp["A"].responses) = 1
    /\ exp["A"].responses[1].timestamp.usec # 0
    /\ exp["A"].responses[1].metadata = Metadata
    /\ exp["A"].responses[1].ratings # <<>>
    /\ \E c1, c2 \in DOMAIN exp["A"].criteria :
          /\ exp["A"].criteria[c1].scale = ListScale
          /\ exp["A"].criteria[c2].scale = DictScale

\* C30: a record_feedback call whose ratings cover every registered
\* criterion and hold a key that is no registered criterion id raises an
\* error and leaves the object and the document as they were; the keys of
\* the ratings of every stored response are ids of registered criteria.
C30_UnknownCriterionRejected ==
    [][/\ (/\ RecordFeedbackStep
           /\ DOMAIN exp["A"].criteria \subseteq RatingKeys(ret'.args.ratings)
           /\ ~(RatingKeys(ret'.args.ratings) \subseteq DOMAIN exp["A"].criteria))
          => /\ ret'.status # "ok"
             /\ exp' = exp
             /\ disk' = disk
       /\ Built("A")' =>
             \A k \in 1..Len(exp'["A"].responses) :
                RatingKeys(exp'["A"].responses[k].ratings)
                   \subseteq DOMAIN exp'["A"].criteria]_vars

\* a criterion is registered and rated, and the unknown key is met after it
C30_Witness ==
    /\ ret.op = "record_feedback"
    /\ ret.status = "KeyError"
    /\ exp["A"].responses # <<>>
    /\ Len(ret.args.ratings) = 2
    /\ ret.args.ratings[1][1] \in DOMAIN exp["A"].criteria
    /\ ret.args.ratings[2][1] \notin DOMAIN exp["A"].criteria

\* the last trial of a non-empty list of trials
LastTrial(trials) == trials[Len(trials)]
\* the last call was a record_trial call on object i that returned
Recorded_Trial(i) ==
    ret.inst = i /\ ret.op = "record_trial" /\ ret.status = "ok"

\* C22: of two trials recorded one after the other by record_trial calls on
\* the same Experiment object, the later one has a timestamp that is greater
\* than or equal to the earlier one's.
C22_TimestampsNonDecreasing ==
    [][\A i \in Inst :
          (/\ Recorded_Trial(i)
           /\ Recorded_Trial(i)'
           /\ Len(exp'[i].trials) = Len(exp[i].trials) + 1)
          => DateTimeLe(LastTrial(exp[i].trials).timestamp,
                        LastTrial(exp'[i].trials).timestamp)]_vars

(* ---- claims about the dashboard ---- *)

\* C23: after the dashboard's load_experiment of an experiment whose
\* document exists, the object's description and metrics are the ones of
\* the document, and so are its variants and its trials.
C23_LoadedAsStored ==
    (ret.op = "load_experiment" /\ disk[Path(exp["A"])] # NoFile)
    => LET data == disk[Path(exp["A"])] IN
       /\ exp["A"].description = data.description
       /\ exp["A"].metrics = data.metrics
       /\ DOMAIN exp["A"].variants = DOMAIN data.variants
       /\ \A vid \in DOMAIN data.variants :
             exp["A"].variants[vid].name = data.variants[vid].name
       /\ Len(exp["A"].trials) = Len(data.trials)
       /\ \A k \in 1..Len(data.trials) :
             /\ exp["A"].trials[k].id = data.trials[k].id
             /\ exp["A"].trials[k].metrics = data.trials[k].metrics

(* ---- claims about failures of the file system ---- *)

\* C21: a call during which reading the document (in a constructor) or
\* writing it (in add_variant, record_trial, add_criterion or
\* record_feedback) failed has raised an error to its caller: it has not
\* returned, and a failed constructor has bound no object.
C21_IOFailurePropagates ==
    ret.io \in IOFailures
    => /\ ret.status \in {"OSError", "JSONDecodeError"}
       /\ ret.op = "__init__" => ~Built(ret.inst)

\* a write failed during record_feedback, after one during add_variant or
\* a read went wrong
C21_Witness ==
    /\ ret.op = "record_feedback"
    /\ ret.io = "dump_fails"
    /\ ret.status = "OSError"
    /\ disk[<<FeedbackDir, "feedback_data.json">>] = Truncated

\* the collections a fresh Experiment loads from the document of self
FreshExperiment(self) ==
    NewExperiment(self.name, self.description, self.metrics, disk)
\* the collections a fresh FeedbackManager loads from the document of self
FreshFeedbackManager(self) == NewFeedbackManager(self.feedback_dir, disk)

\* C28: after an add_variant, record_trial, add_criterion or record_feedback
\* call, whether it returned or raised, the document is readable and the
\* object's collections equal the ones a fresh instance loads from it.
C28_MemoryEqualsDocument ==
    /\ ret.op \in {"add_variant", "record_trial"}
       => /\ disk[Path(exp["A"])] # Truncated
          /\ exp["A"].variants = FreshExperiment(exp["A"]).variants
          /\ exp["A"].trials = FreshExperiment(exp["A"]).trials
    /\ ret.op \in {"add_criterion", "record_feedback"}
       => /\ disk[FeedbackPath(exp["B"])] # Truncated
          /\ exp["B"].criteria = FreshFeedbackManager(exp["B"]).criteria
          /\ exp["B"].responses = FreshFeedbackManager(exp["B"]).responses

(* ---- claims about the queries ---- *)

Queries ==
    {"analyze_results", "get_best_variant", "to_dataframe",
     "get_article_feedback", "get_evaluator_feedback",
     "calculate_article_score", "get_feedback_stats"}

\* C29: a call of analyze_results, get_best_variant or to_dataframe on an
\* Experiment, or of get_article_feedback, get_evaluator_feedback,
\* calculate_article_score or get_feedback_stats on a FeedbackManager,
\* returning or raising, leaves the variants and trials, the criteria and
\* responses, and both documents as they were.
C29_QueriesReadOnly ==
    [][ret'.op \in Queries => (exp' = exp /\ disk' = disk)]_vars

\* a query returned on stores that hold trials and responses, and another
\* raised
C29_Witness ==
    /\ ret.op = "to_dataframe"
    /\ ret.status = "ok"
    /\ Len(ret.value) = MaxTrials
    /\ exp["B"].responses # <<>>

(* ---- claims about the trace logger ---- *)

\* the traces of the calls made without an error
LoggedWithoutError == SelectSeq(ret.calls, LAMBDA t : t.error = None)
\* how often a trace occurs in a list
Occurrences(traces, t) == Cardinality({k \in 1..Len(traces) : traces[k] = t})

\* C24: after log_trace calls that returned, get_traces(success_only=False)
\* returns as many traces as calls were made, get_traces(success_only=True)
\* returns exactly the traces logged without an error; the success
\* directory holds the traces with error null and the error directory the
\* others; and the result is ordered by timestamp, newest first.
C24_OneTracePerCall ==
    (/\ ret.op = "get_traces"
     /\ ret.args.start_date = None
     /\ ret.args.end_date = None)
    => /\ ~ret.args.success_only => Len(ret.value) = Len(ret.calls)
       /\ ret.args.success_only =>
             \A t \in Range(ret.value) \cup Range(LoggedWithoutError) :
                Occurrences(ret.value, t) = Occurrences(LoggedWithoutError, t)
       /\ \A fn \in DOMAIN disk[exp["A"].success_dir] :
             disk[exp["A"].success_dir][fn].error = None
       /\ \A fn \in DOMAIN disk[exp["A"].error_dir] :
             disk[exp["A"].error_dir][fn].error # None
       /\ \A j, k \in 1..Len(ret.value) : j < k =>
             DateTimeLe(FromIsoFormat(ret.value[k].timestamp),
                        FromIsoFormat(ret.value[j].timestamp))

(* ---- claims about the evaluator ---- *)

\* the text json.loads accepts, as it is or after the quote replacement
Parseable(text) == JsonLoads(text).ok \/ JsonLoads(ReplaceQuotes(text)).ok

\* C25: evaluate_article returns in every case: a mapping whose "error" is
\* the failure's message when the LLM call raised, a mapping with "error"
\* and "raw_response" when the response text is no JSON even after the
\* quote replacement, and the parsed value only for a text that parses.
C25_EvaluateNeverRaises ==
    ret.op = "evaluate_article"
    => /\ ret.status = "ok"
       /\ ret.args.llm.raises => ret.value = [error |-> ret.args.llm.message]
       /\ (~ret.args.llm.raises /\ ~Parseable(ret.args.llm.text))
          => /\ DOMAIN ret.value = {"error", "raw_response"}
             /\ ret.value.raw_response = ret.args.llm.text
       /\ (~ret.args.llm.raises /\ Parseable(ret.args.llm.text))
          => ret.value \in {JsonLoads(ret.args.llm.text).value,
                            JsonLoads(ReplaceQuotes(ret.args.llm.text)).value}

\* the LLM call raised and the call returned its message
C25_Witness ==
    /\ ret.op = "evaluate_article"
    /\ ret.args.llm.raises
    /\ ret.status = "ok"
    /\ ret.value = [error |-> "API Error"]

\* the text was no JSON, and its quote replacement is an object
C25_WitnessRepaired ==
    /\ ret.op = "evaluate_article"
    /\ ~ret.args.llm.raises
    /\ ~JsonLoads(ret.args.llm.text).ok
    /\ ret.value = PyDict(<<<<PyStr(<<>>), PyStr(<<":">>)>>>>)

(* ---- claims about the generator ---- *)

\* the generator's calls so far, and where in them a kind of call was made
Events == exp["A"].events
EvaluateCalls == {k \in 1..Len(Events) : Events[k].call = "evaluate_article"}
LogCalls == {k \in 1..Len(Events) : Events[k].call = "log_trace"}
\* the log_trace calls that returned, with and without an error
ErrorTraces == {k \in LogCalls : Events[k].error # None /\ ~Events[k].raised}
SuccessTraces ==
    {k \in LogCalls : Events[k].error = None /\ ~Events[k].raised}
\* the generate_article call is over
Generated == ret.op = "generate_article"
\* what the generator's LLM call did
GeneratorLLM == exp["A"].frame.llm
\* the call returned a result with the article and the evaluation
ReturnedArticle ==
    /\ ret.status = "ok"
    /\ DOMAIN ret.value = {"title", "content", "keywords", "evaluation"}
    /\ ret.value.title = ret.args.title
    /\ ret.value.content = GeneratorLLM.content[1]
    /\ ret.value.keywords = Keywords

\* C26, as stated: when the LLM call fails, exactly one error trace and no
\* success trace is logged, the evaluator is not invoked and the same
\* exception is raised; when it succeeds, one success trace is logged before
\* the evaluator is invoked and the result carries title, content, keywords
\* and the evaluation.
C26_AsClaimed ==
    Generated =>
       /\ GeneratorLLM.raises =>
             /\ Cardinality(ErrorTraces) = 1
             /\ SuccessTraces = {}
             /\ EvaluateCalls = {}
             /\ ret.status = "Exception"
             /\ ret.value = GeneratorLLM.message
       /\ ~GeneratorLLM.raises =>
             /\ ret.status = "ok"
             /\ Cardinality(SuccessTraces) = 1
             /\ Cardinality(EvaluateCalls) = 1
             /\ \A s \in SuccessTraces, e \in EvaluateCalls : s < e
             /\ ReturnedArticle

\* C26, amended: when the LLM call raises, log_trace is called once, with
\* that exception, no success trace is logged and the evaluator is not
\* invoked; the exception is raised if log_trace returned (leaving one file
\* in the error directory), and log_trace's own exception otherwise.  When
\* the LLM call returns a message with a text block and the success
\* log_trace returns, the evaluator is invoked after it and the result
\* carries title, content, keywords and the evaluation.  When the message
\* has no content block or the success log_trace raises, the evaluator is
\* not invoked, log_trace is called with that exception, and that exception
\* (or the second log_trace's own) is raised.
C26_GenerateArticle ==
    Generated =>
       LET last == Events[Len(Events)]
           raised == IF last.raised
                     THEN ret.status = "OSError"
                     ELSE /\ ret.status = last.error.type
                          /\ ret.value = last.error.exception
       IN
       /\ GeneratorLLM.raises =>
             /\ Len(Events) = 2
             /\ LogCalls = {2}
             /\ last.error = Exc("Exception", GeneratorLLM.message)
             /\ raised
             /\ ~last.raised =>
                   /\ Cardinality(DOMAIN disk[<<TraceDir, "error">>]) = 1
                   /\ DOMAIN disk[<<TraceDir, "success">>] = {}
       /\ (~GeneratorLLM.raises /\ 2 \in SuccessTraces) =>
             /\ GeneratorLLM.content # <<>>
             /\ Len(Events) = 3
             /\ EvaluateCalls = {3}
             /\ ReturnedArticle
       /\ (~GeneratorLLM.raises /\ 2 \notin SuccessTraces) =>
             /\ EvaluateCalls = {}
             /\ SuccessTraces = {}
             /\ last.call = "log_trace"
             /\ last.error # None
             /\ last.error.type = IF GeneratorLLM.content = <<>>
                                  THEN "IndexError" ELSE "OSError"
             /\ raised

\* the LLM call raised, one error trace was written and the exception raised
C26_Witness ==
    /\ Generated
    /\ GeneratorLLM.raises
    /\ ret.status = "Exception"
    /\ ret.value = "API Error"
    /\ Cardinality(DOMAIN disk[<<TraceDir, "error">>]) = 1

\* the LLM call returned a text, and the article was returned evaluated
C26_WitnessSuccess ==
    /\ Generated
    /\ ~GeneratorLLM.raises
    /\ ReturnedArticle
    /\ Events[2].call = "log_trace"
    /\ Events[3].call = "evaluate_article"

(* ---- claims about the /generate endpoint ---- *)

\* the calls the request has made, and where in them an attempt or a save is
RequestEvents == exp["A"].events
Attempts ==
    {k \in 1..Len(RequestEvents) : RequestEvents[k].call = "generate_content"}
Saves ==
    {k \in 1..Len(RequestEvents) : RequestEvents[k].call = "save_content"}
\* the attempt at position k failed, with a message naming the overload
FailedAttempt(k) == RequestEvents[k].outcome.raises
OverloadedAttempt(k) ==
    FailedAttempt(k) /\ IsOverloaded(RequestEvents[k].outcome.message)

\* C27: generate_content is attempted at most 3 times per request; an
\* attempt after the first follows a failed attempt whose message contains
\* 'overloaded_error', made while fewer than 3 had been made; after any
\* other failure, or a failure of the third attempt, the request ends with
\* status 500 without a save_content call; save_content is called at most
\* once, directly after an attempt that succeeded, and exactly once when the
\* request has ended after an attempt that succeeded.
C27_RetryLoop ==
    /\ Cardinality(Attempts) <= 3
    /\ \A k \in Attempts : k > 1 =>
          /\ k - 1 \in Attempts
          /\ OverloadedAttempt(k - 1)
          /\ Cardinality({j \in Attempts : j < k}) < 3
    /\ \A k \in Attempts :
          (FailedAttempt(k)
           /\ (~OverloadedAttempt(k) \/ Cardinality({j \in Attempts : j <= k}) = 3))
          => /\ Saves = {}
             /\ Attempts \subseteq 1..k
             /\ ret.op = "POST /generate" => ret.status = "500"
    /\ Cardinality(Saves) <= 1
    /\ \A s \in Saves : s - 1 \in Attempts /\ ~FailedAttempt(s - 1)
    /\ (ret.op = "POST /generate" /\ \E k \in Attempts : ~FailedAttempt(k))
          => Cardinality(Saves) = 1

\* two overloaded attempts were retried and the third one failed: status 500
C27_Witness ==
    /\ ret.op = "POST /generate"
    /\ ret.status = "500"
    /\ Cardinality(Attempts) = 3
    /\ \A k \in Attempts : OverloadedAttempt(k)
    /\ Saves = {}

====
